---- MODULE Spec2Model ----
(***************************************************************************)
(* RAMP: stochastic generation of load profiles (ramp/core/core.py).       *)
(*                                                                         *)
(* Three levels are modelled, each with its own specification:             *)
(*   Spec         one call of Appliance.generate_load_profile;             *)
(*   SpecBuild    User.add_appliance: Appliance.__init__ and windows();    *)
(*   SpecUseCase  UseCase.generate_daily_load_profiles and its parallel    *)
(*                variant, over users that own flat appliances;            *)
(*   SpecCalls    single calls of the methods whose result is a function   *)
(*                of their arguments and of the random draws.              *)
(* The variables of the levels a specification does not run keep their     *)
(* idle values.                                                            *)
(*                                                                         *)
(* Scaling.  A day has DayLen minutes instead of 1440 and a year YearLen   *)
(* days instead of 365.  Powers are kept in milliwatt so that the mask     *)
(* value 0.001 is the integer 1.  Fractions (random_var_w,                 *)
(* time_fraction_random_variability, thermal_p_var, r_c) are percentages.  *)
(* occasional_use and the uniform(0,1) draw are counted in halves          *)
(* (0, 1/2, 1).  Every random draw is a nondeterministic choice over the   *)
(* values the draw can return.                                             *)
(***************************************************************************)
EXTENDS Integers, Sequences, FiniteSets, TLC

VARIABLES
    app,              \* the Appliance's configuration attributes
    user_preference,  \* self.user.user_preference
    day_type,         \* argument day_type of generate_load_profile
    peak_time_range,  \* argument peak_time_range: <<lo, hi>> is arange(lo, hi)
    daily_use,        \* self.daily_use, minute -> milliwatt
    free_spots,       \* self.free_spots, sequence of slices <<start, stop>>
    random_cycle,     \* <<self.random_cycle1, random_cycle2, random_cycle3>>
    rand_windows,     \* local rand_windows of generate_load_profile
    rand_time,        \* local rand_time
    tot_time,         \* local tot_time
    draws,            \* the eligibility draws of the current call
    events,           \* history: the switch-on events passed to update_daily_use
    pc,               \* position in generate_load_profile
    error             \* the exception that ended the call, "" when none

\* Appliance.__init__ and Appliance.windows (SpecBuild)
VARIABLES
    args,             \* the arguments of add_appliance: constructor and windows()
    built,            \* the attributes of the Appliance under construction
    App_list,         \* self.user.App_list of the appliance's user
    bpc,              \* position in add_appliance
    berror            \* the exception that ended add_appliance, "" when none

\* UseCase.generate_daily_load_profiles[_parallel] (SpecUseCase)
VARIABLES
    users,            \* self.users: user records with their App_list
    num_profiles,     \* argument num_profiles
    day_types,        \* argument day_types: [form, v]
    parallel,         \* which of the two generators runs
    load,             \* user.load of every user, <<>> while None
    prof_i,           \* sequential: the day of the outer loop
    user_i,           \* sequential: position in self.users
    member_i,         \* sequential: the _ of range(self.num_users)
    app_i,            \* sequential: position in self.App_list
    usecase_load,     \* sequential: local usecase_load
    single_load,      \* sequential: local single_load
    profiles,         \* sequential: local profiles, the returned list
    tasks,            \* parallel: local tasks
    workers,          \* parallel: the processes of the pool
    taken,            \* parallel: number of chunks handed to workers
    outqueue,         \* parallel: results on their way to the parent
    daily_profiles_dict, \* parallel: local daily_profiles_dict
    daily_profiles,   \* parallel: the returned array, <<>> before it exists
    rng,              \* state of the parent process's random module
    generated,        \* history: every call of generate_load_profile
    upc,              \* position in the generator
    uerror            \* the exception that ended the generator, "" when none

\* single calls of a method (SpecCalls)
VARIABLES
    call,             \* the method called and its arguments
    ret               \* what the call returned, <<>> before it returns

build_vars == <<args, built, App_list, bpc, berror>>

usecase_config == <<users, num_profiles, day_types, parallel>>

sequential_vars == <<prof_i, user_i, member_i, app_i, usecase_load, single_load, profiles>>

parallel_vars == <<tasks, workers, taken, outqueue, daily_profiles_dict, daily_profiles>>

usecase_vars == <<usecase_config, load, sequential_vars, parallel_vars, rng, generated,
                  upc, uerror>>

appliance_vars == <<app, user_preference, day_type, peak_time_range, daily_use, free_spots,
                    random_cycle, rand_windows, rand_time, tot_time, draws, events, pc,
                    error>>

call_vars == <<call, ret>>

vars == <<appliance_vars, build_vars, usecase_vars, call_vars>>

\* what a call of generate_load_profile leaves alone: its arguments, the
\* appliance's configuration and the other levels
config == <<app, user_preference, day_type, peak_time_range, build_vars, usecase_vars,
            call_vars>>

(***************************************************************************)
(* Bounds of the model.                                                    *)
(***************************************************************************)
DayLen == 6
MaxNumber == 2
MaxFuncCycle == 2

Minutes == 0 .. (DayLen - 1)

Min(a, b) == IF a <= b THEN a ELSE b
Max(a, b) == IF a >= b THEN a ELSE b

\* int(x) of Python for the rational num/den, den > 0: truncation toward zero
IntTrunc(num, den) == IF num >= 0 THEN num \div den ELSE -((-num) \div den)

\* round(x) of Python / numpy for the rational num/den, den > 0, num >= 0:
\* round half to even
RoundHalfEven(num, den) ==
    LET q == num \div den
        r == num % den
    IN  IF 2 * r < den THEN q
        ELSE IF 2 * r > den THEN q + 1
        ELSE IF q % 2 = 0 THEN q ELSE q + 1

Zeros == [m \in Minutes |-> 0]

\* a[lo:hi] = value   (numpy slice assignment, 0 <= lo <= hi <= DayLen)
FillSlice(a, lo, hi, value) ==
    [m \in Minutes |-> IF lo <= m /\ m < hi THEN value ELSE a[m]]

WinSize(w) == w[2] - w[1]

(***************************************************************************)
(* Appliance.windows: the attributes it derives from the configured        *)
(* windows.                                                                *)
(***************************************************************************)
\* int(random_var_w * np.diff(window))
RandomVarOf(random_var_w, w) == IntTrunc(random_var_w * WinSize(w), 100)

\* daily_use after windows(): 0.001 on every configured window
WindowsDailyUse(w1, w2, w3) ==
    FillSlice(FillSlice(FillSlice(Zeros, w1[1], w1[2], 1), w2[1], w2[2], 1),
              w3[1], w3[2], 1)

(***************************************************************************)
(* ramp.core.utils.random_variation: norm * uniform(1 - var, 1 + var) when *)
(* var > 0, else norm.  The draw is the lowest, the middle or the highest  *)
(* value of the range.                                                     *)
(***************************************************************************)
VariationFactors(var) == IF var > 0 THEN {100 - var, 100, 100 + var} ELSE {100}

RandomVariation(var, norm) == {(norm * f) \div 100 : f \in VariationFactors(var)}

(***************************************************************************)
(* Eligibility of the appliance for the day (generate_load_profile).       *)
(***************************************************************************)
\* random.uniform(0, 1), in halves: 0.0 <= u < 1.0
UniformDraws == {0, 1}

\* rand_daily_pref = 0 if user_preference == 0 else randint(1, user_preference)
RandDailyPrefDraws(up) == IF up = 0 THEN {0} ELSE 1 .. up

OccasionalSkip(u, occasional_use) == u > occasional_use

\* variant: the preference test also requires user_preference != 0
PreferenceSkipUnlessNoPreference(pref_index, rand_daily_pref) ==
    pref_index # 0 /\ user_preference # 0 /\ rand_daily_pref # pref_index

PreferenceSkip(pref_index, rand_daily_pref) ==
    pref_index # 0 /\ rand_daily_pref # pref_index

WeekSkip(wd_we_type, dt) == wd_we_type \notin {dt, 2}

\* the condition of the "skip this appliance" test
SkipAppliance(u, rand_daily_pref) ==
    \/ OccasionalSkip(u, app.occasional_use)
    \/ PreferenceSkip(app.pref_index, rand_daily_pref)
    \/ WeekSkip(app.wd_we_type, day_type)

\* variant: daily_use is not zeroed at the start of the call
InitDailyUseKept(previous) == previous

\* self.daily_use = np.zeros(1440), the first statement of the call
InitDailyUse(previous) == Zeros

(***************************************************************************)
(* Window and total-time randomisation.                                    *)
(***************************************************************************)
\* calc_rand_window: the windows it can return for window w with
\* variability rv (random_var_i)
CalcRandWindow(w, rv) ==
    { <<Max(s, 0), Min(e, DayLen)>> :
        s \in (w[1] - rv) .. (w[1] + rv), e \in (w[2] - rv) .. (w[2] + rv) }

\* round(random.uniform(func_time, int(func_time * random_var_t))) with
\* random_var_t = random_variation(time_fraction_random_variability)
RandTimeDraws ==
    LET ft == app.func_time
        v  == app.time_fraction_random_variability
        lo == IntTrunc(ft * (100 - v), 100)
        hi == IntTrunc(ft * (100 + v), 100)
    IN  Min(ft, lo) .. Max(ft, hi)

TotalTime(rws) == WinSize(rws[1]) + WinSize(rws[2]) + WinSize(rws[3])

\* variant: rand_time is not capped to the available time
RandTotalTimeOfUseUncapped(draw, rws) ==
    LET r1 == IF draw < app.func_cycle THEN app.func_cycle ELSE draw
    IN  [raised |-> FALSE, value |-> r1]

\* rand_total_time_of_use after the draw: [raised, value]
RandTotalTimeOfUse(draw, rws) ==
    LET fc == app.func_cycle
        r1 == IF draw < fc THEN fc ELSE draw
        total == TotalTime(rws)
        r2 == IF 100 * r1 > 99 * total THEN IntTrunc(99 * total, 100) ELSE r1
    IN  [raised |-> r2 < fc, value |-> r2]

\* for rand_window in rand_windows: daily_use[rw[0]:rw[1]] = np.full(np.diff(rw), value)
\* np.full raises on a negative size; the windows before it are already filled
FillWindows(a, rws, value) ==
    LET bad(i) == rws[i][2] < rws[i][1]
        a1 == FillSlice(a, rws[1][1], rws[1][2], value)
        a2 == FillSlice(a1, rws[2][1], rws[2][2], value)
        a3 == FillSlice(a2, rws[3][1], rws[3][2], value)
    IN  IF bad(1) THEN [raised |-> TRUE, a |-> a]
        ELSE IF bad(2) THEN [raised |-> TRUE, a |-> a1]
        ELSE IF bad(3) THEN [raised |-> TRUE, a |-> a2]
        ELSE [raised |-> FALSE, a |-> a3]

\* variant: the flat value forgets the number of copies
FlatPowerValueOneCopy == app.power * 1000

\* total_power_value = self.power[prof_i] * self.number, in milliwatt
FlatPowerValue == app.power * app.number * 1000

\* variant: free_spots seeded from the configured windows, not the jittered ones
SeedFreeSpotsConfigured(rws) == SelectSeq(app.window, LAMBDA w : w[1] # w[2])

\* self.free_spots = [slice(rw[0], rw[1], None) for rw in rand_windows if rw[0] != rw[1]]
SeedFreeSpots(rws) == SelectSeq(rws, LAMBDA rw : rw[1] # rw[2])

(***************************************************************************)
(* Duty cycles (assign_random_cycles; ramp.core.utils.duty_cycle and       *)
(* random_choice).                                                         *)
(***************************************************************************)
Repeat(v, n) == [i \in 1 .. n |-> v]

\* round(t * random_variation(var)) for the three draws of the variation
CycleLengths(var, t) == {RoundHalfEven(t * f, 100) : f \in VariationFactors(var)}

\* duty_cycle(var, t1, p1, t2, p2): p1 repeated n1 times, then p2 repeated n2 times
DutyCycle(var, t1, p1, t2, p2) ==
    { Repeat(p1, n1) \o Repeat(p2, n2) :
        n1 \in CycleLengths(var, t1), n2 \in CycleLengths(var, t2) }

\* random_choice(var, t1, p1, t2, p2): every sample drawn between p1 and p2
RandomChoice(var, t1, p1, t2, p2) ==
    UNION { [1 .. (n1 + n2) -> {p1, p2}] :
        n1 \in CycleLengths(var, t1), n2 \in CycleLengths(var, t2) }

\* the power of a cycle part in milliwatt after random_variation(thermal_p_var, p)
CyclePower(p) == RandomVariation(app.thermal_p_var, p * 1000)

\* assign_random_cycles: the triples <<random_cycle1, random_cycle2, random_cycle3>>
\* it can leave; `old` is the triple before the call
AssignRandomCycles(old) ==
    LET c == app.cycle
    IN  IF app.fixed_cycle < 1 THEN {old}
        ELSE IF app.fixed_cycle = 1 THEN
            { <<c1, c1, c1>> :
                c1 \in UNION { DutyCycle(c[1].r_c, c[1].t1, p1, c[1].t2, p2) :
                    p1 \in CyclePower(c[1].p1), p2 \in CyclePower(c[1].p2) } }
        ELSE IF app.fixed_cycle = 2 THEN
            { <<c1, c2, c1>> :
                c1 \in UNION { DutyCycle(c[1].r_c, c[1].t1, p1, c[1].t2, p2) :
                    p1 \in CyclePower(c[1].p1), p2 \in CyclePower(c[1].p2) },
                c2 \in UNION { DutyCycle(c[2].r_c, c[2].t1, p1, c[2].t2, p2) :
                    p1 \in CyclePower(c[2].p1), p2 \in CyclePower(c[2].p2) } }
        ELSE
            { <<c1, c2, c3>> :
                c1 \in UNION { RandomChoice(c[1].r_c, c[1].t1, p1, c[1].t2, p2) :
                    p1 \in CyclePower(c[1].p1), p2 \in CyclePower(c[1].p2) },
                c2 \in UNION { RandomChoice(c[2].r_c, c[2].t1, p1, c[2].t2, p2) :
                    p1 \in CyclePower(c[2].p1), p2 \in CyclePower(c[2].p2) },
                c3 \in UNION { RandomChoice(c[3].r_c, c[3].t1, p1, c[3].t2, p2) :
                    p1 \in CyclePower(c[3].p1), p2 \in CyclePower(c[3].p2) } }

(***************************************************************************)
(* Switch-on planner (rand_switch_on_window).                              *)
(***************************************************************************)
\* indexes_choice: the candidate switch-on minutes
IndexesChoice(fs, fc) ==
    UNION { IF fs[i][2] - fs[i][1] >= fc THEN fs[i][1] .. (fs[i][2] - fc) ELSE {} :
            i \in DOMAIN fs }

\* the first spot with fs.start <= switch_on <= fs.stop - func_cycle
SpotOfSwitchOn(fs, switch_on, fc) ==
    LET holds(i) == fs[i][1] <= switch_on /\ switch_on <= fs[i][2] - fc
    IN  CHOOSE i \in DOMAIN fs : holds(i) /\ \A j \in 1 .. (i - 1) : ~holds(j)

\* variant: the duration is bounded by rand_time only, not by the end of the spot
LargestDurationAnySpot(fs, switch_on, fc, rt) == rt

\* largest_duration = min(rand_time, upper_limit - switch_on)
LargestDuration(fs, switch_on, fc, rt) ==
    Min(rt, fs[SpotOfSwitchOn(fs, switch_on, fc)][2] - switch_on)

\* variant: an event may be empty
EventLengthsFromZero(fc, largest) == 0 .. Max(0, largest)

\* variant: the size of an event is drawn from 1 on, not from func_cycle on
EventLengthsFromOne(fc, largest) == IF largest >= 1 THEN 1 .. largest ELSE {}

\* the sizes of indexes: int(random.uniform(func_cycle, largest_duration)) when
\* largest_duration > func_cycle, largest_duration when equal, none (raise) when smaller
EventLengths(fc, largest) ==
    IF largest > fc THEN fc .. largest
    ELSE IF largest = fc THEN {largest}
    ELSE {}

\* what rand_switch_on_window can do with the free spots fs: return None, raise,
\* or return indexes = arange(start, start + size)
RandSwitchOnWindow(fs, fc, rt) ==
    IF IndexesChoice(fs, fc) = {} THEN {[kind |-> "none", start |-> 0, size |-> 0]}
    ELSE UNION { LET lens == EventLengths(fc, LargestDuration(fs, son, fc, rt))
                 IN  IF lens = {} THEN {[kind |-> "raise", start |-> son, size |-> 0]}
                     ELSE {[kind |-> "indexes", start |-> son, size |-> n] : n \in lens} :
                 son \in IndexesChoice(fs, fc) }

\* variant: the indexes are not adjusted to the budget
AdjustedSizeWhole(size, tot, rt) == size

\* len(indexes[:-(tot_time - rand_time)]) for tot_time > rand_time
AdjustedSize(size, tot, rt) == Max(0, size - (tot - rt))

(***************************************************************************)
(* update_available_time_for_switch_on_events.                             *)
(***************************************************************************)
\* the spots that pass the test indexes[0] >= fs.start and indexes[-1] <= fs.stop
ContainingSpots(fs, first, last) ==
    {i \in DOMAIN fs : first >= fs[i][1] /\ last <= fs[i][2]}

\* what replaces the popped spot
SplitSpot(spot, first, last) ==
    IF first = spot[1] /\ last = spot[2] THEN <<>>
    ELSE IF first = spot[1] THEN << <<last + 1, spot[2]>> >>
    ELSE IF last = spot[2] THEN << <<spot[1], first>> >>
    ELSE << <<spot[1], first>>, <<last + 1, spot[2]>> >>

UpdateAvailableTime(fs, first, last) ==
    LET found == ContainingSpots(fs, first, last)
    IN  IF found = {} THEN fs
        ELSE LET i == CHOOSE k \in found : \A j \in found : k <= j
             IN  SubSeq(fs, 1, i - 1) \o SplitSpot(fs[i], first, last)
                     \o SubSeq(fs, i + 1, Len(fs))

(***************************************************************************)
(* Coincidence (calc_coincident_switch_on) and the peak-window test.       *)
(***************************************************************************)
\* ramp.core.constants.switch_on_parameters: op_factor, in halves
SwitchOnParameters == [op_factor |-> 1]

\* ramp.core.utils.within_peak_time_window(indexes[0], indexes[-1],
\*     peak_time_range[0], peak_time_range[-1])
WithinPeakTimeWindow(first, last, peak_first, peak_last) ==
    first <= peak_last /\ last >= peak_first

PeakRangeEmpty(ptr) == ptr[2] <= ptr[1]

InsidePeakWindow(first, last) ==
    WithinPeakTimeWindow(first, last, peak_time_range[1], peak_time_range[2] - 1)

\* math.ceil(random.gauss(...)): an integer below, inside or above 1..number
GaussCeilings(n) == (-1) .. (n + 2)

\* min(number, max(1, ceil(gauss(...))))
PeakCoincidence(n) == {Min(n, Max(1, g)) : g \in GaussCeilings(n)}

\* np.where(prob >= array)[0] for prob = k / (2 number), array = arange(number) / number
WhereReached(n, k) == {i \in 0 .. (n - 1) : k >= 2 * i}

\* variant: the ValueError of np.max on an empty selection leaves on_number at 0
OnNumberUncaught(n, k) ==
    IF WhereReached(n, k) = {} THEN 0
    ELSE (CHOOSE i \in WhereReached(n, k) : \A j \in WhereReached(n, k) : j <= i) + 1

\* on_number = np.max(np.where(prob >= array)) + 1, 1 after the ValueError that
\* np.max raises on an empty selection
OnNumber(n, k) ==
    IF WhereReached(n, k) = {} THEN 1
    ELSE (CHOOSE i \in WhereReached(n, k) : \A j \in WhereReached(n, k) : j <= i) + 1

\* prob = uniform(0, (number - op_factor) / number) in steps of 1/(2 number),
\* op_factor in halves; the range is negative when op_factor > number
OffPeakCoincidenceFor(n, op_factor) ==
    LET top == 2 * n - op_factor
    IN  {OnNumber(n, k) : k \in Min(0, top) .. Max(0, top)}

OffPeakCoincidence(n) == OffPeakCoincidenceFor(n, SwitchOnParameters.op_factor)

\* variant: the coincidence ignores the attribute fixed
CalcCoincidentSwitchOnNeverFixed(inside_peak_window) ==
    IF inside_peak_window THEN PeakCoincidence(app.number)
    ELSE OffPeakCoincidence(app.number)

\* calc_coincident_switch_on of an appliance with the attributes number and
\* fixed, when switch_on_parameters() returns op_factor
CoincidentSwitchOn(number, fixed, op_factor, inside_peak_window) ==
    IF inside_peak_window /\ fixed = "no" THEN PeakCoincidence(number)
    ELSE IF ~inside_peak_window /\ fixed = "no"
         THEN OffPeakCoincidenceFor(number, op_factor)
    ELSE {number}

CalcCoincidentSwitchOn(inside_peak_window) ==
    CoincidentSwitchOn(app.number, app.fixed, SwitchOnParameters.op_factor,
                       inside_peak_window)

(***************************************************************************)
(* update_daily_use.                                                       *)
(***************************************************************************)
\* np.round(np.mean(indexes)) for indexes = first .. last
MidPoint(first, last) == RoundHalfEven(first + last, 2)

InRange(x, w) == w[1] <= x /\ x < w[2]

\* variant: cycle 3 is selected by its own windows cw31 and cw32, cycle 1 otherwise
CycleForTestingThird(first, last) ==
    LET evaluate == MidPoint(first, last)
    IN  IF InRange(evaluate, app.cw[1]) \/ InRange(evaluate, app.cw[2]) THEN 1
        ELSE IF InRange(evaluate, app.cw[3]) \/ InRange(evaluate, app.cw[4]) THEN 2
        ELSE IF InRange(evaluate, app.cw[5]) \/ InRange(evaluate, app.cw[6]) THEN 3
        ELSE 1

\* the number of the random cycle the midpoint rule selects
CycleFor(first, last) ==
    LET evaluate == MidPoint(first, last)
    IN  IF InRange(evaluate, app.cw[1]) \/ InRange(evaluate, app.cw[2]) THEN 1
        ELSE IF InRange(evaluate, app.cw[3]) \/ InRange(evaluate, app.cw[4]) THEN 2
        ELSE 3

\* np.put(a, indexes, values): values repeat when shorter than indexes, and
\* nothing is written when values is empty
Put(a, first, last, values) ==
    IF Len(values) = 0 THEN a
    ELSE [m \in Minutes |->
            IF first <= m /\ m <= last
            THEN values[((m - first) % Len(values)) + 1] ELSE a[m]]

Scale(values, k) == [i \in DOMAIN values |-> values[i] * k]

\* the arrays update_daily_use can leave in daily_use
UpdateDailyUse(a, coincidence, power, first, last) ==
    IF app.fixed_cycle > 0
    THEN {Put(a, first, last, Scale(random_cycle[CycleFor(first, last)], coincidence))}
    ELSE {Put(a, first, last, <<v>>) :
            v \in RandomVariation(app.thermal_p_var, coincidence * power * 1000)}

(***************************************************************************)
(* Construction: Appliance.__init__ followed by Appliance.windows.         *)
(***************************************************************************)
NoWindow == <<0, 0>>

Windows == {<<s, e>> : s \in 0 .. DayLen, e \in 0 .. DayLen}

ProperWindows == {w \in Windows : w[1] < w[2]}

\* the check of windows(): the time the first num_windows windows allow
WindowTime(ws, num_windows) ==
    LET size(i) == IF i <= num_windows THEN WinSize(ws[i]) ELSE 0
    IN  size(1) + size(2) + size(3)

NumWindowsOf(ws) == IF ws[3] # NoWindow THEN 3 ELSE IF ws[2] # NoWindow THEN 2 ELSE 1

NoCycle == [p1 |-> 0, t1 |-> 0, p2 |-> 0, t2 |-> 0, r_c |-> 0]

\* the attributes of an accepted appliance; windows() derives random_var_i and,
\* for fixed_cycle == 1, cw11 and cw12
Appliance(number, power, ws, random_var_w, func_time, tfrv, func_cycle, fixed, flat, fixed_cycle, thermal_p_var, occasional_use, pref_index, wd_we_type, cycle, cw) ==
    [number |-> number, power |-> power, num_windows |-> NumWindowsOf(ws),
     window |-> ws, random_var_w |-> random_var_w,
     random_var |-> <<RandomVarOf(random_var_w, ws[1]), RandomVarOf(random_var_w, ws[2]),
                      RandomVarOf(random_var_w, ws[3])>>,
     func_time |-> func_time, time_fraction_random_variability |-> tfrv,
     func_cycle |-> func_cycle, fixed |-> fixed, flat |-> flat,
     fixed_cycle |-> fixed_cycle, thermal_p_var |-> thermal_p_var,
     occasional_use |-> occasional_use, pref_index |-> pref_index,
     wd_we_type |-> wd_we_type, cycle |-> cycle,
     cw |-> IF fixed_cycle = 1 THEN <<ws[1], ws[2], cw[3], cw[4], cw[5], cw[6]>> ELSE cw]

NoDraws == [u |-> 0, rand_daily_pref |-> 0]

\* the scratch state of an appliance after windows(), before the first call
InitScratch ==
    /\ daily_use = WindowsDailyUse(app.window[1], app.window[2], app.window[3])
    /\ free_spots = <<>>
    /\ random_cycle = << <<>>, <<>>, <<>> >>
    /\ rand_windows = <<NoWindow, NoWindow, NoWindow>>
    /\ rand_time = 0
    /\ tot_time = 0
    /\ draws = NoDraws
    /\ events = <<>>
    /\ pc = "start"
    /\ error = ""

(***************************************************************************)
(* generate_load_profile, step by step.                                    *)
(***************************************************************************)
\* the appliance is skipped: return with the zeroed daily_use
GenerateSkip ==
    /\ pc = "start"
    /\ \E u \in UniformDraws, rdp \in RandDailyPrefDraws(user_preference) :
        /\ SkipAppliance(u, rdp)
        /\ draws' = [u |-> u, rand_daily_pref |-> rdp]
    /\ daily_use' = InitDailyUse(daily_use)
    /\ pc' = "return_skip"
    /\ UNCHANGED <<config, free_spots, random_cycle, rand_windows, rand_time,
                   tot_time, events, error>>

GenerateEligible ==
    /\ pc = "start"
    /\ \E u \in UniformDraws, rdp \in RandDailyPrefDraws(user_preference) :
        /\ ~SkipAppliance(u, rdp)
        /\ draws' = [u |-> u, rand_daily_pref |-> rdp]
    /\ daily_use' = InitDailyUse(daily_use)
    /\ pc' = "windows"
    /\ UNCHANGED <<config, free_spots, random_cycle, rand_windows, rand_time,
                   tot_time, events, error>>

\* the triples of jittered windows
RandWindows ==
    { <<rw1, rw2, rw3>> :
        rw1 \in CalcRandWindow(app.window[1], app.random_var[1]),
        rw2 \in CalcRandWindow(app.window[2], app.random_var[2]),
        rw3 \in CalcRandWindow(app.window[3], app.random_var[3]) }

\* rand_total_time_of_use raises: func_cycle does not fit
RandTimeRaises ==
    /\ pc = "windows"
    /\ \E rws \in RandWindows, d \in RandTimeDraws :
        /\ RandTotalTimeOfUse(d, rws).raised
        /\ rand_windows' = rws
    /\ pc' = "error"
    /\ error' = "ValueError"
    /\ UNCHANGED <<config, daily_use, free_spots, random_cycle, rand_time, tot_time,
                   draws, events>>

\* flat appliance: fill the jittered windows and return
FlatProfile ==
    /\ pc = "windows"
    /\ app.flat = "yes"
    /\ \E rws \in RandWindows, d \in RandTimeDraws :
        LET rt == RandTotalTimeOfUse(d, rws)
            filled == FillWindows(daily_use, rws, FlatPowerValue)
        IN  /\ ~rt.raised
            /\ rand_windows' = rws
            /\ rand_time' = rt.value
            /\ daily_use' = filled.a
            /\ pc' = IF filled.raised THEN "error" ELSE "return_flat"
            /\ error' = IF filled.raised THEN "ValueError" ELSE error
    /\ UNCHANGED <<config, free_spots, random_cycle, tot_time, draws, events>>

\* non-flat appliance: mask the jittered windows, draw the cycles, seed free_spots
SeedProfile ==
    /\ pc = "windows"
    /\ app.flat # "yes"
    /\ \E rws \in RandWindows, d \in RandTimeDraws :
        LET rt == RandTotalTimeOfUse(d, rws)
            filled == FillWindows(daily_use, rws, 1)
        IN  /\ ~rt.raised
            /\ rand_windows' = rws
            /\ rand_time' = rt.value
            /\ daily_use' = filled.a
            /\ IF filled.raised
               THEN /\ pc' = "error"
                    /\ error' = "ValueError"
                    /\ UNCHANGED <<free_spots, random_cycle, tot_time>>
               ELSE /\ random_cycle' \in AssignRandomCycles(random_cycle)
                    /\ free_spots' = SeedFreeSpots(rws)
                    /\ tot_time' = 0
                    /\ pc' = "loop"
                    /\ UNCHANGED error
    /\ UNCHANGED <<config, draws, events>>

\* one pass of the main loop is enabled
InLoop == pc = "loop" /\ tot_time <= rand_time

Planned == RandSwitchOnWindow(free_spots, app.func_cycle, rand_time)

\* rand_switch_on_window returns None: break
SwitchOnNone ==
    /\ InLoop
    /\ \E o \in Planned : o.kind = "none"
    /\ pc' = "return"
    /\ UNCHANGED <<config, daily_use, free_spots, random_cycle, rand_windows, rand_time,
                   tot_time, draws, events, error>>

\* coincidence, update_daily_use and the free-spot update for indexes first..last
ApplySwitchOn(first, last, truncated) ==
    \E c \in CalcCoincidentSwitchOn(InsidePeakWindow(first, last)) :
        /\ daily_use' \in UpdateDailyUse(daily_use, c, app.power, first, last)
        /\ free_spots' = UpdateAvailableTime(free_spots, first, last)
        /\ events' = Append(events, [start |-> first, size |-> last - first + 1,
                                     coincidence |-> c, truncated |-> truncated])

\* the size of the indexes the main loop applies after a switch-on of `size`
\* minutes: all of it while the budget lasts, else the adjusted part
AppliedSize(size) ==
    IF tot_time + size > rand_time
    THEN AdjustedSize(size, tot_time + size, rand_time) ELSE size

\* a switch-on event within the budget: apply it and loop
SwitchOnEvent ==
    /\ InLoop
    /\ \E o \in Planned :
        IF o.kind = "raise"
        THEN /\ pc' = "error"
             /\ error' = "ValueError"
             /\ UNCHANGED <<daily_use, free_spots, tot_time, events>>
        ELSE /\ o.kind = "indexes"
             /\ tot_time + o.size <= rand_time
             /\ ~PeakRangeEmpty(peak_time_range)
             /\ tot_time' = tot_time + o.size
             /\ ApplySwitchOn(o.start, o.start + AppliedSize(o.size) - 1, FALSE)
             /\ pc' = "loop"
             /\ UNCHANGED error
    /\ UNCHANGED <<config, random_cycle, rand_windows, rand_time, draws>>

\* the event passes the budget: apply the adjusted indexes and break
SwitchOnTruncated ==
    /\ InLoop
    /\ \E o \in Planned :
        /\ o.kind = "indexes"
        /\ tot_time + o.size > rand_time
        /\ AppliedSize(o.size) > 0
        /\ ~PeakRangeEmpty(peak_time_range)
        /\ tot_time' = tot_time + o.size
        /\ ApplySwitchOn(o.start, o.start + AppliedSize(o.size) - 1, TRUE)
    /\ pc' = "return"
    /\ UNCHANGED <<config, random_cycle, rand_windows, rand_time, draws, error>>

\* the budget was met exactly: the adjusted indexes are empty, break
SwitchOnBudgetMet ==
    /\ InLoop
    /\ \E o \in Planned :
        /\ o.kind = "indexes"
        /\ tot_time + o.size > rand_time
        /\ AppliedSize(o.size) = 0
        /\ tot_time' = tot_time + o.size
    /\ pc' = "return"
    /\ UNCHANGED <<config, daily_use, free_spots, random_cycle, rand_windows, rand_time,
                   draws, events, error>>

\* peak_time_range is empty: peak_time_range[0] raises IndexError
PeakRangeRaises ==
    /\ InLoop
    /\ \E o \in Planned :
        /\ o.kind = "indexes"
        /\ AppliedSize(o.size) > 0
        /\ PeakRangeEmpty(peak_time_range)
        /\ tot_time' = tot_time + o.size
    /\ pc' = "error"
    /\ error' = "IndexError"
    /\ UNCHANGED <<config, daily_use, free_spots, random_cycle, rand_windows, rand_time,
                   draws, events>>

Next ==
    \/ GenerateSkip
    \/ GenerateEligible
    \/ RandTimeRaises
    \/ FlatProfile
    \/ SeedProfile
    \/ SwitchOnNone
    \/ SwitchOnEvent
    \/ SwitchOnTruncated
    \/ SwitchOnBudgetMet
    \/ PeakRangeRaises

(***************************************************************************)
(* Initial states: accepted appliances (the check of windows() holds).     *)
(***************************************************************************)
NoCycles == <<NoCycle, NoCycle, NoCycle>>
NoCws == <<NoWindow, NoWindow, NoWindow, NoWindow, NoWindow, NoWindow>>

Accepted(a) == WindowTime(a.window, a.num_windows) >= a.func_time

\* window layouts without jitter: one window of any size, two windows of at
\* most MaxTwoSize minutes each in any order (apart, adjacent or overlapping),
\* and three windows
SmallWindows == {w \in ProperWindows : WinSize(w) <= 3}

Layouts ==
    { <<w1, NoWindow, NoWindow>> : w1 \in ProperWindows }
    \cup { <<w1, w2, NoWindow>> : w1 \in SmallWindows, w2 \in SmallWindows }
    \cup { <<<<0, 1>>, <<1, 3>>, <<DayLen - 2, DayLen>> >>,
           <<<<0, 2>>, <<3, 4>>, <<4, DayLen>> >> }

\* window layouts that are jittered (random_var_w = 50%)
JitterLayouts ==
    { <<<<0, 2>>, <<2, 4>>, NoWindow>>, <<<<1, 3>>, <<DayLen - 2, DayLen>>, NoWindow>>,
      <<<<1, DayLen - 1>>, NoWindow, NoWindow>> }

\* planner family: every layout, one copy, constant power, no duty cycle
PlannerAppliances ==
    { a \in { Appliance(1, 1, lay[1], lay[2], ft, tv, fc, "no", "no", 0, 0, 2, 0, 2,
                        NoCycles, NoCws) :
                lay \in (Layouts \X {0}) \cup (JitterLayouts \X {50}),
                ft \in {1, 2, 4}, tv \in {0}, fc \in 1 .. MaxFuncCycle } :
        Accepted(a) }

\* a few layouts for the families that vary the other attributes
FewLayouts ==
    { <<<<1, DayLen - 1>>, NoWindow, NoWindow>>,
      <<<<0, 2>>, <<2, 4>>, NoWindow>>,
      <<<<3, 5>>, <<0, 2>>, NoWindow>> }

\* power family: number of copies, fixed, flat, thermal variability
PowerAppliances ==
    { Appliance(n, 2, ws, 0, 2, 0, 1, fixed, flat, 0, th, 2, 0, 2, NoCycles, NoCws) :
        n \in 1 .. MaxNumber, ws \in FewLayouts,
        fixed \in {"no", "yes"}, flat \in {"no", "yes"}, th \in {0, 50} }

\* duty cycles: cycle k has parts (p1 for t1 minutes, p2 for t2 minutes)
SomeCycles ==
    << [p1 |-> 5, t1 |-> 1, p2 |-> 1, t2 |-> 1, r_c |-> 0],
       [p1 |-> 3, t1 |-> 2, p2 |-> 0, t2 |-> 1, r_c |-> 50],
       [p1 |-> 7, t1 |-> 1, p2 |-> 2, t2 |-> 1, r_c |-> 0] >>

ShortCycles ==
    << [p1 |-> 5, t1 |-> 1, p2 |-> 1, t2 |-> 1, r_c |-> 0],
       [p1 |-> 3, t1 |-> 1, p2 |-> 0, t2 |-> 1, r_c |-> 0],
       [p1 |-> 7, t1 |-> 1, p2 |-> 2, t2 |-> 1, r_c |-> 0] >>

SomeCws == <<<<0, 2>>, NoWindow, <<2, 3>>, <<4, 5>>, NoWindow, <<0, DayLen>> >>

\* cycle windows that leave cw31 and cw32 at their default [0, 0)
TwoCycleCws == <<<<0, 2>>, NoWindow, <<2, 3>>, NoWindow, NoWindow, NoWindow>>

CycleAppliances ==
    { Appliance(n, 1, ws, 0, 3, 0, 1, fixed, "no", fcy, 0, 2, 0, 2, SomeCycles, SomeCws) :
        n \in {1, MaxNumber}, ws \in FewLayouts, fixed \in {"no", "yes"},
        fcy \in 1 .. 2 }
    \cup
    { Appliance(MaxNumber, 1, ws, 0, 1, 0, 1, "yes", "no", 3, 0, 2, 0, 2,
                ShortCycles, cws) :
        ws \in {<<<<1, DayLen - 1>>, NoWindow, NoWindow>>},
        cws \in {SomeCws, TwoCycleCws} }

\* eligibility family: occasional use, preference index, week pattern
EligibilityAppliances ==
    { Appliance(2, 1, ws, 0, 2, 0, 1, "no", flat, 0, 0, occ, pref, wd, NoCycles, NoCws) :
        ws \in FewLayouts, flat \in {"no", "yes"}, occ \in 0 .. 2, pref \in 0 .. 2,
        wd \in 0 .. 2 }

PeakRanges == {<<2, 4>>, <<3, 3>>}

\* no single call is under way
CallIdle ==
    /\ call = [method |-> "none"]
    /\ ret = <<>>

\* the construction level at rest
BuildIdle ==
    /\ args = <<>>
    /\ built = <<>>
    /\ App_list = <<>>
    /\ bpc = "idle"
    /\ berror = ""

\* the use-case level at rest
UseCaseIdle ==
    /\ users = <<>>
    /\ num_profiles = 0
    /\ day_types = <<>>
    /\ parallel = FALSE
    /\ load = <<>>
    /\ prof_i = 0
    /\ user_i = 0
    /\ member_i = 0
    /\ app_i = 0
    /\ usecase_load = <<>>
    /\ single_load = <<>>
    /\ profiles = <<>>
    /\ tasks = <<>>
    /\ workers = <<>>
    /\ taken = 0
    /\ outqueue = <<>>
    /\ daily_profiles_dict = <<>>
    /\ daily_profiles = <<>>
    /\ rng = <<>>
    /\ generated = {}
    /\ upc = "idle"
    /\ uerror = ""

Init ==
    /\ \/ /\ app \in PlannerAppliances \cup PowerAppliances \cup CycleAppliances
          /\ user_preference = 0
          /\ day_type = 0
       \/ /\ app \in EligibilityAppliances
          /\ user_preference \in 0 .. 2
          /\ day_type \in 0 .. 1
    /\ peak_time_range \in PeakRanges
    /\ InitScratch
    /\ BuildIdle
    /\ UseCaseIdle
    /\ CallIdle

Spec == Init /\ [][Next]_vars

\* the call runs on: the interpreter executes the next statement of a call that
\* has not returned
SpecFair == Spec /\ WF_vars(Next)

(***************************************************************************)
(* User.add_appliance: Appliance.__init__ followed, when window arguments  *)
(* are passed, by Appliance.windows.                                       *)
(***************************************************************************)
\* the appliance level at rest
ApplianceIdle ==
    /\ app = <<>>
    /\ user_preference = 0
    /\ day_type = 0
    /\ peak_time_range = <<0, 0>>
    /\ daily_use = <<>>
    /\ free_spots = <<>>
    /\ random_cycle = <<>>
    /\ rand_windows = <<>>
    /\ rand_time = 0
    /\ tot_time = 0
    /\ draws = NoDraws
    /\ events = <<>>
    /\ pc = "idle"
    /\ error = ""

\* days of the year: range(365) of the generators, power.shape == (365, 1)
YearLen == 2

\* the length of power * np.ones(366)
ScalarPowerLen == YearLen + 1

\* None: an argument that is not passed (a passed one is a tuple)
None == <<>>

\* the power argument: a number, a DataFrame of shape (rows, cols), a JSON
\* string holding a table of `rows` rows, or an object of another type
PowerArgs ==
    { [form |-> "scalar", rows |-> 0, cols |-> 0, value |-> 2],
      [form |-> "other", rows |-> 0, cols |-> 0, value |-> 2],
      [form |-> "DataFrame", rows |-> YearLen, cols |-> 2, value |-> 2] }
    \cup { [form |-> f, rows |-> r, cols |-> 1, value |-> 2] :
             f \in {"DataFrame", "json"}, r \in (YearLen - 1) .. (YearLen + 1) }

Series(value, n) == [i \in 1 .. n |-> value]

\* the normalisation of power in Appliance.__init__: [raised, power]
NormalisePower(power) ==
    CASE power.form = "DataFrame" ->
             IF <<power.rows, power.cols>> = <<YearLen, 1>>
             THEN [raised |-> FALSE, power |-> Series(power.value, power.rows)]
             ELSE [raised |-> TRUE, power |-> <<>>]
      [] power.form = "json" ->
             [raised |-> FALSE, power |-> Series(power.value, power.rows)]
      [] power.form = "scalar" ->
             [raised |-> FALSE, power |-> Series(power.value, ScalarPowerLen)]
      [] OTHER -> [raised |-> TRUE, power |-> <<>>]

\* the arguments of add_appliance
AddApplianceArgs ==
    [ power : PowerArgs,
      num_windows : 1 .. 3,
      func_time : {0, 3, DayLen},
      fixed_cycle : {0, 1},
      window_1 : {None, <<0, 2>>, <<1, 4>>},
      window_2 : {None, <<2, 4>>, <<4, 3>>},
      window_3 : {None, <<4, DayLen>>},
      random_var_w : {None, <<50>>} ]

\* windows_args of add_appliance is not empty
HasWindowsArgs(a) ==
    \/ a.window_1 # None
    \/ a.window_2 # None
    \/ a.window_3 # None
    \/ a.random_var_w # None

\* the attributes Appliance.__init__ sets
Constructed(a, power) ==
    [ number |-> 1, num_windows |-> a.num_windows, func_time |-> a.func_time,
      fixed_cycle |-> a.fixed_cycle, power |-> power, random_var_w |-> 0,
      window |-> <<NoWindow, NoWindow, NoWindow>>, random_var |-> <<0, 0, 0>>,
      daily_use |-> <<>>, cw11 |-> NoWindow, cw12 |-> NoWindow ]

\* Appliance.__init__
Construct ==
    /\ bpc = "start"
    /\ LET p == NormalisePower(args.power)
       IN  IF p.raised
           THEN /\ bpc' = "error"
                /\ berror' = "ValueError"
                /\ UNCHANGED built
           ELSE /\ built' = Constructed(args, p.power)
                /\ bpc' = "constructed"
                /\ UNCHANGED berror
    /\ UNCHANGED <<args, App_list, appliance_vars, usecase_vars, call_vars>>

\* add_appliance without window arguments: windows() is not called
ReturnWithoutWindows ==
    /\ bpc = "constructed"
    /\ ~HasWindowsArgs(args)
    /\ bpc' = "returned"
    /\ UNCHANGED <<args, built, App_list, berror, appliance_vars, usecase_vars, call_vars>>

\* windows(): the windows after the three "is None" tests that did not raise
AssignedWindows(b, w1, w2, w3) ==
    << IF w1 = None THEN <<0, DayLen>> ELSE w1,
       IF w2 = None THEN b.window[2] ELSE w2,
       IF w3 = None THEN b.window[3] ELSE w3 >>

\* windows(): a declared window is not provided
MissingWindow(num_windows, w2, w3) ==
    \/ w2 = None /\ num_windows >= 2
    \/ w3 = None /\ num_windows = 3

\* variant: the time test of windows() never raises
TooLittleWindowTimeIgnored(ws, num_windows, func_time) == FALSE

\* windows(): window_time < self.func_time
TooLittleWindowTime(ws, num_windows, func_time) ==
    WindowTime(ws, num_windows) < func_time

\* Appliance.windows, called by add_appliance with its window arguments
CallWindows ==
    /\ bpc = "constructed"
    /\ HasWindowsArgs(args)
    /\ LET ws == AssignedWindows(built, args.window_1, args.window_2, args.window_3)
           rvw == IF args.random_var_w = None THEN 0 ELSE args.random_var_w[1]
           mask == FillWindows(Zeros, ws, 1)
           partly(k) == [built EXCEPT !.window =
                            [i \in 1 .. 3 |-> IF i <= k THEN ws[i] ELSE built.window[i]]]
       IN  IF args.window_2 = None /\ args.num_windows >= 2
           THEN /\ built' = partly(1)
                /\ bpc' = "error"
                /\ berror' = "InvalidWindow"
                /\ UNCHANGED App_list
           ELSE IF args.window_3 = None /\ args.num_windows = 3
           THEN /\ built' = partly(2)
                /\ bpc' = "error"
                /\ berror' = "InvalidWindow"
                /\ UNCHANGED App_list
           ELSE IF TooLittleWindowTime(ws, built.num_windows, built.func_time)
           THEN /\ built' = partly(3)
                /\ bpc' = "error"
                /\ berror' = "InvalidWindow"
                /\ UNCHANGED App_list
           ELSE IF mask.raised
           THEN /\ built' = [partly(3) EXCEPT !.random_var_w = rvw, !.daily_use = mask.a]
                /\ bpc' = "error"
                /\ berror' = "ValueError"
                /\ UNCHANGED App_list
           ELSE LET done == [built EXCEPT
                               !.window = ws,
                               !.random_var_w = rvw,
                               !.daily_use = mask.a,
                               !.random_var = <<RandomVarOf(rvw, ws[1]),
                                                RandomVarOf(rvw, ws[2]),
                                                RandomVarOf(rvw, ws[3])>>,
                               !.cw11 = IF built.fixed_cycle = 1 THEN ws[1] ELSE @,
                               !.cw12 = IF built.fixed_cycle = 1 THEN ws[2] ELSE @]
                IN  /\ built' = done
                    /\ App_list' = Append(App_list, done)
                    /\ bpc' = "returned"
                    /\ UNCHANGED berror
    /\ UNCHANGED <<args, appliance_vars, usecase_vars, call_vars>>

NextBuild ==
    \/ Construct
    \/ ReturnWithoutWindows
    \/ CallWindows

InitBuild ==
    /\ args \in AddApplianceArgs
    /\ built = <<>>
    /\ App_list = <<>>
    /\ bpc = "start"
    /\ berror = ""
    /\ ApplianceIdle
    /\ UseCaseIdle
    /\ CallIdle

SpecBuild == InitBuild /\ [][NextBuild]_vars

(***************************************************************************)
(* UseCase.generate_daily_load_profiles and                                *)
(* generate_daily_load_profiles_parallel.  A call of                       *)
(* Appliance.generate_load_profile is one step here; the appliances of     *)
(* this level are flat ones, whose call is the eligibility test followed   *)
(* by the filling of the windows.                                          *)
(***************************************************************************)
\* multiprocessing.cpu_count(), the number of processes of the pool
MaxWorkers == 2

\* chunksize=4 of pool.imap_unordered
ChunkSize == 4

\* variant: the sum keeps the profile added last
AddProfilesKeepingLast(a, b) == b

\* a + b of two daily profiles (numpy arrays of one day)
AddProfiles(a, b) == [m \in Minutes |-> a[m] + b[m]]

\* self.power of an appliance whose power differs from day to day
DailyPower(n) == [i \in 1 .. n |-> i]

\* a flat appliance with one window
FlatAppliance(power, w1, occasional_use, pref_index, wd_we_type) ==
    [Appliance(1, 0, <<w1, NoWindow, NoWindow>>, 0, 2, 0, 1, "no", "yes", 0, 0,
               occasional_use, pref_index, wd_we_type, NoCycles, NoCws)
        EXCEPT !.power = power]

\* User(num_users=..., user_preference=...) with its appliances
User(num_users, up, apps) ==
    [num_users |-> num_users, user_preference |-> up, App_list |-> apps]

\* the appliances of the use cases, with self.power as given
Lamp(power) == FlatAppliance(power, <<0, 2>>, 2, 0, 2)
WeekdayLamp(power) == FlatAppliance(power, <<2, 5>>, 2, 0, 0)
WeekendLamp(power) == FlatAppliance(power, <<1, 3>>, 2, 0, 1)
\* occasional_use 0: skipped unless the draw is 0.0
OccasionalLamp(power) == FlatAppliance(power, <<3, DayLen>>, 0, 0, 2)
PreferredLamp(power) == FlatAppliance(power, <<1, 4>>, 2, 1, 2)

\* self.power of the appliances: a DataFrame of one value per day of the year,
\* or a number
Powers == {DailyPower(YearLen), Series(2, ScalarPowerLen)}

\* use cases of at most one user category: no user, a user without
\* appliances, two members with a week-day appliance
SmallUseCases ==
    {<<>>, <<User(1, 0, <<>>)>>}
    \cup { <<User(2, 0, <<WeekdayLamp(p)>>)>> : p \in Powers }

\* use cases of two user categories
Communities ==
    { <<User(1, 0, <<Lamp(p), OccasionalLamp(p)>>),
        User(2, 1, <<PreferredLamp(p), WeekendLamp(p)>>)>> : p \in Powers }

\* the runs: a use case and num_profiles, which goes up to one day past the
\* year for the small use cases
UseCaseRuns ==
    { [users |-> us, num_profiles |-> n] :
        us \in SmallUseCases, n \in 1 .. (YearLen + 1) }
    \cup { [users |-> us, num_profiles |-> n] : us \in Communities, n \in 1 .. 2 }

\* a day type as generate_load_profile receives it: a number, or the whole
\* sequence (a list or a numpy array)
DayTypeInt(v) == [form |-> "int", v |-> <<v>>]

\* the day_types argument for n days
DayTypesFor(n) ==
    { DayTypeInt(v) : v \in 0 .. 1 }
    \cup { [form |-> f, v |-> [i \in 1 .. n |-> (i - 1) % 2]] : f \in {"list", "ndarray"} }

\* day_types[day_id] of a sequence
DayTypeOfDay(dts, day_id) == DayTypeInt(dts.v[day_id + 1])

\* `self.wd_we_type not in [day_type, 2]` for the day_type passed: a list
\* equals no number, the comparison with an array of several elements has no
\* truth value
WeekTest(wd_we_type, dt) ==
    CASE dt.form = "int" -> IF WeekSkip(wd_we_type, dt.v[1]) THEN "skip" ELSE "keep"
      [] dt.form = "list" -> IF wd_we_type # 2 THEN "skip" ELSE "keep"
      [] OTHER -> IF Len(dt.v) = 1
                  THEN IF WeekSkip(wd_we_type, dt.v[1]) THEN "skip" ELSE "keep"
                  ELSE "ValueError"

\* rand_total_time_of_use of appliance a: [raised, value] for every draw
RandTotalTimesOf(a, rws) ==
    LET ft == a.func_time
        v  == a.time_fraction_random_variability
        lo == IntTrunc(ft * (100 - v), 100)
        hi == IntTrunc(ft * (100 + v), 100)
        total == TotalTime(rws)
        first(draw) == IF draw < a.func_cycle THEN a.func_cycle ELSE draw
        capped(draw) == IF 100 * first(draw) > 99 * total
                        THEN IntTrunc(99 * total, 100) ELSE first(draw)
    IN  { [raised |-> capped(draw) < a.func_cycle, value |-> capped(draw)] :
            draw \in Min(ft, lo) .. Max(ft, hi) }

\* the number of draws of the random module a call makes: randint for
\* rand_daily_pref when the user has preferences and uniform(0, 1), then for an
\* eligible appliance two randint per window and the uniform of rand_time
DrawsOfCall(up, eligible) ==
    (IF up = 0 THEN 1 ELSE 2) + (IF eligible THEN 3 * 2 + 1 ELSE 0)

\* the calls generate_load_profile(prof_i, ..., dt, power) of the flat appliance
\* a can make: how it ended, self.daily_use after it, the draws it made
CallOutcomes(a, up, day, dt, power) ==
    LET outcome(kind, use, eligible) ==
            [kind |-> kind, daily_use |-> use, draws |-> DrawsOfCall(up, eligible)]
        jittered == { <<rw1, rw2, rw3>> :
                        rw1 \in CalcRandWindow(a.window[1], a.random_var[1]),
                        rw2 \in CalcRandWindow(a.window[2], a.random_var[2]),
                        rw3 \in CalcRandWindow(a.window[3], a.random_var[3]) }
        filled(rws) == FillWindows(Zeros, rws, a.power[day + 1] * a.number * 1000)
        flat == UNION { { IF rt.raised THEN outcome("ValueError", Zeros, TRUE)
                          ELSE IF filled(rws).raised
                               THEN outcome("ValueError", filled(rws).a, TRUE)
                               ELSE outcome("flat", filled(rws).a, TRUE) :
                            rt \in RandTotalTimesOf(a, rws) } : rws \in jittered }
        eligibility(u, rdp) ==
            IF OccasionalSkip(u, a.occasional_use) THEN "skip_occasional"
            ELSE IF PreferenceSkip(a.pref_index, rdp) THEN "skip_preference"
            ELSE IF WeekTest(a.wd_we_type, dt) = "skip" THEN "skip_week"
            ELSE WeekTest(a.wd_we_type, dt)
    IN  UNION { LET e == eligibility(u, rdp)
                IN  IF e = "keep" THEN flat ELSE {outcome(e, Zeros, FALSE)} :
                u \in UniformDraws, rdp \in RandDailyPrefDraws(up) }

\* the state of a process's random module: the seed of its stream and the
\* number of draws made from it
ParentRng == [seed |-> 0, pos |-> 0]

Advance(state, n) == [state EXCEPT !.pos = @ + n]

\* the record of one call of generate_load_profile
Generation(day, u, a, copy, dt, outcome, process, state) ==
    [day |-> day, user |-> u, app |-> a, copy |-> copy, day_type |-> dt,
     kind |-> outcome.kind, daily_use |-> outcome.daily_use, process |-> process,
     rng_from |-> state, rng_to |-> Advance(state, outcome.draws)]

\* prof_i not in range(365)
DayOutOfRange(day) == day \notin 0 .. (YearLen - 1)

(***************************************************************************)
(* Sequential generation: generate_daily_load_profiles,                    *)
(* User.generate_aggregated_load_profile, User.generate_single_load_profile*)
(***************************************************************************)
\* for prof_i in range(num_profiles): usecase_load = np.zeros(1440)
SeqDay ==
    /\ upc = "seq_day"
    /\ prof_i < num_profiles
    /\ usecase_load' = Zeros
    /\ user_i' = 1
    /\ upc' = "seq_user"
    /\ UNCHANGED <<usecase_config, load, prof_i, member_i, app_i, single_load, profiles,
                   parallel_vars, rng, generated, uerror, appliance_vars, build_vars, call_vars>>

\* return profiles
SeqReturn ==
    /\ upc = "seq_day"
    /\ prof_i >= num_profiles
    /\ upc' = "done"
    /\ UNCHANGED <<usecase_config, load, sequential_vars, parallel_vars, rng, generated,
                   uerror, appliance_vars, build_vars, call_vars>>

\* for user in self.users: entry of generate_aggregated_load_profile
SeqUser ==
    /\ upc = "seq_user"
    /\ user_i <= Len(users)
    /\ IF DayOutOfRange(prof_i)
       THEN /\ upc' = "error"
            /\ uerror' = "ValueError"
            /\ UNCHANGED <<load, member_i>>
       ELSE /\ load' = [load EXCEPT ![user_i] = Zeros]
            /\ member_i' = 0
            /\ upc' = "seq_member"
            /\ UNCHANGED uerror
    /\ UNCHANGED <<usecase_config, prof_i, user_i, app_i, usecase_load, single_load,
                   profiles, parallel_vars, rng, generated, appliance_vars, build_vars, call_vars>>

\* profiles.append(usecase_load): the day is complete
SeqDayEnd ==
    /\ upc = "seq_user"
    /\ user_i > Len(users)
    /\ profiles' = Append(profiles, usecase_load)
    /\ prof_i' = prof_i + 1
    /\ upc' = "seq_day"
    /\ UNCHANGED <<usecase_config, load, user_i, member_i, app_i, usecase_load,
                   single_load, parallel_vars, rng, generated, uerror, appliance_vars,
                   build_vars, call_vars>>

\* for _ in range(self.num_users): entry of generate_single_load_profile
SeqMember ==
    /\ upc = "seq_member"
    /\ member_i < users[user_i].num_users
    /\ IF DayOutOfRange(prof_i)
       THEN /\ upc' = "error"
            /\ uerror' = "ValueError"
            /\ UNCHANGED <<single_load, app_i>>
       ELSE /\ single_load' = Zeros
            /\ app_i' = 1
            /\ upc' = "seq_app"
            /\ UNCHANGED uerror
    /\ UNCHANGED <<usecase_config, load, prof_i, user_i, member_i, usecase_load, profiles,
                   parallel_vars, rng, generated, appliance_vars, build_vars, call_vars>>

\* usecase_load = usecase_load + user.load: the user category is complete
SeqUserEnd ==
    /\ upc = "seq_member"
    /\ member_i >= users[user_i].num_users
    /\ usecase_load' = AddProfiles(usecase_load, load[user_i])
    /\ user_i' = user_i + 1
    /\ upc' = "seq_user"
    /\ UNCHANGED <<usecase_config, load, prof_i, member_i, app_i, single_load, profiles,
                   parallel_vars, rng, generated, uerror, appliance_vars, build_vars, call_vars>>

\* for App in self.App_list: App.generate_load_profile(prof_i, peak_time_range,
\* day_type, power=App.power[prof_i]); single_load = single_load + App.daily_use
SeqApp ==
    /\ upc = "seq_app"
    /\ app_i <= Len(users[user_i].App_list)
    /\ LET a == users[user_i].App_list[app_i]
       IN  IF prof_i >= Len(a.power)
           THEN /\ upc' = "error"
                /\ uerror' = "IndexError"
                /\ UNCHANGED <<single_load, app_i, rng, generated>>
           ELSE \E o \in CallOutcomes(a, users[user_i].user_preference, prof_i,
                                      day_types, a.power[prof_i + 1]) :
                   /\ generated' = generated \cup
                          {Generation(prof_i, user_i, app_i, member_i + 1, day_types, o,
                                      0, rng)}
                   /\ rng' = Advance(rng, o.draws)
                   /\ IF o.kind = "ValueError"
                      THEN /\ upc' = "error"
                           /\ uerror' = "ValueError"
                           /\ UNCHANGED <<single_load, app_i>>
                      ELSE /\ single_load' = AddProfiles(single_load, o.daily_use)
                           /\ app_i' = app_i + 1
                           /\ UNCHANGED <<upc, uerror>>
    /\ UNCHANGED <<usecase_config, load, prof_i, user_i, member_i, usecase_load, profiles,
                   parallel_vars, appliance_vars, build_vars, call_vars>>

\* self.load = self.load + single_load: the member is complete
SeqMemberEnd ==
    /\ upc = "seq_app"
    /\ app_i > Len(users[user_i].App_list)
    /\ load' = [load EXCEPT ![user_i] = AddProfiles(load[user_i], single_load)]
    /\ member_i' = member_i + 1
    /\ upc' = "seq_member"
    /\ UNCHANGED <<usecase_config, prof_i, user_i, app_i, usecase_load, single_load,
                   profiles, parallel_vars, rng, generated, uerror, appliance_vars,
                   build_vars, call_vars>>

(***************************************************************************)
(* Parallel generation: generate_daily_load_profiles_parallel and          *)
(* single_appliance_daily_load_profile run by the processes of the pool.   *)
(***************************************************************************)
RECURSIVE Flatten(_)
\* the concatenation of a sequence of sequences
Flatten(ss) == IF ss = <<>> THEN <<>> ELSE Head(ss) \o Flatten(Tail(ss))

\* the tasks of one appliance on one day: (app, (day_id, peak_time_range,
\* day_type)) once per member; the appliance travels with its user
TasksOfApp(day_id, u, a) ==
    [c \in 1 .. users[u].num_users |->
        [day_id |-> day_id, day_type |-> DayTypeOfDay(day_types, day_id), user |-> u,
         app_i |-> a, copy |-> c, app |-> users[u].App_list[a],
         user_preference |-> users[u].user_preference]]

TasksOfUser(day_id, u) ==
    Flatten([a \in 1 .. Len(users[u].App_list) |-> TasksOfApp(day_id, u, a)])

TasksOfDay(day_id) == Flatten([u \in 1 .. Len(users) |-> TasksOfUser(day_id, u)])

\* the list the four nested loops build
TaskList == Flatten([d \in 1 .. num_profiles |-> TasksOfDay(d - 1)])

\* the tasks are built; day_types[day_id] of a number raises TypeError
ParTasks ==
    /\ upc = "par_tasks"
    /\ IF day_types.form = "int"
       THEN /\ upc' = "error"
            /\ uerror' = "TypeError"
            /\ UNCHANGED <<tasks, daily_profiles_dict>>
       ELSE /\ tasks' = TaskList
            /\ daily_profiles_dict' = [d \in 0 .. (num_profiles - 1) |-> <<>>]
            /\ upc' = "par_pool"
            /\ UNCHANGED uerror
    /\ UNCHANGED <<usecase_config, load, sequential_vars, workers, taken, outqueue,
                   daily_profiles, rng, generated, appliance_vars, build_vars, call_vars>>

\* the random module of a new process of the pool: the code seeds nothing, so
\* the process keeps the state it inherits from its parent where the platform
\* hands it down, and has a state of its own where the platform seeds it
WorkerRng(w, inherited) == IF inherited THEN rng ELSE [seed |-> w, pos |-> 0]

IdleWorker(state) == [rng |-> state, chunk |-> 0, next |-> 0, results |-> <<>>]

\* multiprocessing.Pool(max_parallel_processes)
ParPool ==
    /\ upc = "par_pool"
    /\ \E inherited \in BOOLEAN :
          workers' = [w \in 1 .. MaxWorkers |-> IdleWorker(WorkerRng(w, inherited))]
    /\ upc' = "par_run"
    /\ UNCHANGED <<usecase_config, load, sequential_vars, tasks, taken, outqueue,
                   daily_profiles_dict, daily_profiles, rng, generated, uerror,
                   appliance_vars, build_vars, call_vars>>

\* the number of chunks imap_unordered cuts the tasks into
NumChunks == (Len(tasks) + ChunkSize - 1) \div ChunkSize

FirstOfChunk(c) == (c - 1) * ChunkSize + 1

LastOfChunk(c) == Min(c * ChunkSize, Len(tasks))

\* an idle process takes the next chunk of the task queue
TakeChunk(w) ==
    /\ upc = "par_run"
    /\ workers[w].chunk = 0
    /\ taken < NumChunks
    /\ taken' = taken + 1
    /\ workers' = [workers EXCEPT ![w].chunk = taken + 1,
                                  ![w].next = FirstOfChunk(taken + 1),
                                  ![w].results = <<>>]
    /\ UNCHANGED <<usecase_config, load, sequential_vars, tasks, outqueue,
                   daily_profiles_dict, daily_profiles, rng, generated, upc, uerror,
                   appliance_vars, build_vars, call_vars>>

\* single_appliance_daily_load_profile(task) in process w; the results of a
\* chunk are sent when its last task is done, an exception ends the chunk
RunTask(w) ==
    /\ upc = "par_run"
    /\ workers[w].chunk # 0
    /\ LET t == workers[w].next
           task == tasks[t]
           a == task.app
           idle(state) == IdleWorker(state)
       IN  IF task.day_id >= Len(a.power)
           THEN /\ workers' = [workers EXCEPT ![w] = idle(workers[w].rng)]
                /\ outqueue' = Append(outqueue, [task |-> t, error |-> "IndexError",
                                                 prof_i |-> task.day_id,
                                                 daily_load |-> <<>>])
                /\ UNCHANGED generated
           ELSE \E o \in CallOutcomes(a, task.user_preference, task.day_id,
                                      task.day_type, a.power[task.day_id + 1]) :
                   LET result == [task |-> t, error |-> "", prof_i |-> task.day_id,
                                  daily_load |-> o.daily_use]
                       after == Advance(workers[w].rng, o.draws)
                   IN  /\ generated' = generated \cup
                              {Generation(task.day_id, task.user, task.app_i, task.copy,
                                          task.day_type, o, w, workers[w].rng)}
                       /\ IF o.kind = "ValueError"
                          THEN /\ workers' = [workers EXCEPT ![w] = idle(after)]
                               /\ outqueue' = Append(outqueue,
                                      [result EXCEPT !.error = "ValueError"])
                          ELSE IF t = LastOfChunk(workers[w].chunk)
                          THEN /\ workers' = [workers EXCEPT ![w] = idle(after)]
                               /\ outqueue' = outqueue \o Append(workers[w].results, result)
                          ELSE /\ workers' = [workers EXCEPT
                                                ![w].rng = after,
                                                ![w].next = t + 1,
                                                ![w].results = Append(@, result)]
                               /\ UNCHANGED outqueue
    /\ UNCHANGED <<usecase_config, load, sequential_vars, tasks, taken,
                   daily_profiles_dict, daily_profiles, rng, upc, uerror, appliance_vars,
                   build_vars, call_vars>>

\* variant: the result replaces the entry of its day
AppendResultOverwriting(dict, prof, entry) == [dict EXCEPT ![prof] = <<entry>>]

\* if prof_i in daily_profiles_dict: append, else: start the entry of the day
AppendResult(dict, prof, entry) == [dict EXCEPT ![prof] = Append(@, entry)]

\* for prof_i, daily_load in imap_unordered_it: the next result that arrived;
\* the exception of a task is raised here
ParReceive ==
    /\ upc = "par_run"
    /\ outqueue # <<>>
    /\ LET r == Head(outqueue)
       IN  IF r.error # ""
           THEN /\ upc' = "error"
                /\ uerror' = r.error
                /\ UNCHANGED daily_profiles_dict
           ELSE /\ daily_profiles_dict' =
                      AppendResult(daily_profiles_dict, r.prof_i,
                                   [task |-> r.task, daily_load |-> r.daily_load])
                /\ UNCHANGED <<upc, uerror>>
    /\ outqueue' = Tail(outqueue)
    /\ UNCHANGED <<usecase_config, load, sequential_vars, tasks, workers, taken,
                   daily_profiles, rng, generated, appliance_vars, build_vars, call_vars>>

RECURSIVE SumLoads(_)
\* np.vstack(entries).sum(axis=0)
SumLoads(entries) ==
    IF entries = <<>> THEN Zeros
    ELSE AddProfiles(Head(entries).daily_load, SumLoads(Tail(entries)))

\* every result was received: the rows of the days are summed;
\* daily_profiles_dict[day_id] raises KeyError for a day without results
ParSum ==
    /\ upc = "par_run"
    /\ taken = NumChunks
    /\ outqueue = <<>>
    /\ \A w \in DOMAIN workers : workers[w].chunk = 0
    /\ IF \E d \in DOMAIN daily_profiles_dict : daily_profiles_dict[d] = <<>>
       THEN /\ upc' = "error"
            /\ uerror' = "KeyError"
            /\ UNCHANGED daily_profiles
       ELSE /\ daily_profiles' =
                  [d \in DOMAIN daily_profiles_dict |-> SumLoads(daily_profiles_dict[d])]
            /\ upc' = "done"
            /\ UNCHANGED uerror
    /\ UNCHANGED <<usecase_config, load, sequential_vars, tasks, workers, taken, outqueue,
                   daily_profiles_dict, rng, generated, appliance_vars, build_vars, call_vars>>

NextUseCase ==
    \/ SeqDay
    \/ SeqReturn
    \/ SeqUser
    \/ SeqDayEnd
    \/ SeqMember
    \/ SeqUserEnd
    \/ SeqApp
    \/ SeqMemberEnd
    \/ ParTasks
    \/ ParPool
    \/ \E w \in 1 .. MaxWorkers : TakeChunk(w)
    \/ \E w \in 1 .. MaxWorkers : RunTask(w)
    \/ ParReceive
    \/ ParSum

InitUseCase ==
    /\ \E run \in UseCaseRuns :
          /\ users = run.users
          /\ num_profiles = run.num_profiles
    /\ day_types \in DayTypesFor(num_profiles)
    /\ parallel \in BOOLEAN
    /\ load = [u \in 1 .. Len(users) |-> <<>>]
    /\ prof_i = 0
    /\ user_i = 0
    /\ member_i = 0
    /\ app_i = 0
    /\ usecase_load = <<>>
    /\ single_load = <<>>
    /\ profiles = <<>>
    /\ tasks = <<>>
    /\ workers = <<>>
    /\ taken = 0
    /\ outqueue = <<>>
    /\ daily_profiles_dict = <<>>
    /\ daily_profiles = <<>>
    /\ rng = ParentRng
    /\ generated = {}
    /\ upc = IF parallel THEN "par_tasks" ELSE "seq_day"
    /\ uerror = ""
    /\ ApplianceIdle
    /\ BuildIdle
    /\ CallIdle

SpecUseCase == InitUseCase /\ [][NextUseCase]_vars

(***************************************************************************)
(* Vocabulary of the properties.                                           *)
(***************************************************************************)
\* the minutes of the half-open interval w
MinutesOf(w) == {m \in Minutes : w[1] <= m /\ m < w[2]}

FreeMinutes == UNION {MinutesOf(free_spots[i]) : i \in DOMAIN free_spots}

JitteredMinutes == UNION {MinutesOf(rand_windows[i]) : i \in 1 .. 3}

EventMinutes(e) == e.start .. (e.start + e.size - 1)

ChosenMinutes == UNION {EventMinutes(events[i]) : i \in DOMAIN events}

NonZeroMinutes == {m \in Minutes : daily_use[m] # 0}

\* the total size of the first n events
RECURSIVE SizeOfFirst(_)
SizeOfFirst(n) == IF n = 0 THEN 0 ELSE SizeOfFirst(n - 1) + events[n].size

OnMinutes == SizeOfFirst(Len(events))

\* positions of the call at which free_spots is seeded
Planning == pc \in {"loop", "return"}

Returned == pc \in {"return", "return_flat", "return_skip"}

\* windows i < j of the triple ws are in ascending order and do not overlap
\* (unused windows are [0, 0))
Ascending(ws) ==
    \A i \in 1 .. 3, j \in 1 .. 3 :
        (i < j /\ ws[i][1] # ws[i][2] /\ ws[j][1] # ws[j][2]) => ws[i][2] <= ws[j][1]

(***************************************************************************)
(* C1.  After any sequence of applied switch-on events, the minutes of     *)
(* free_spots are the minutes of the jittered windows minus every minute   *)
(* of every interval chosen so far.  Stated for jittered windows that are  *)
(* in ascending order and do not overlap; adjacent windows and             *)
(* func_cycle = 1 are among them.                                          *)
(***************************************************************************)
C1_FreeSpotsAreWindowsMinusChosen ==
    (Planning /\ Ascending(rand_windows))
        => FreeMinutes = JitteredMinutes \ ChosenMinutes

(***************************************************************************)
(* C2.  In every state from the seeding of free_spots on, free_spots is    *)
(* sorted by start minute, its intervals are pairwise disjoint, and each   *)
(* lies inside a jittered window.  Stated for appliances whose configured  *)
(* windows are in ascending order and do not overlap.                      *)
(***************************************************************************)
FreeSpotsSorted ==
    \A i \in DOMAIN free_spots, j \in DOMAIN free_spots :
        i < j => free_spots[i][1] <= free_spots[j][1]

FreeSpotsDisjoint ==
    \A i \in DOMAIN free_spots, j \in DOMAIN free_spots :
        i # j => MinutesOf(free_spots[i]) \cap MinutesOf(free_spots[j]) = {}

FreeSpotsInsideWindows ==
    \A i \in DOMAIN free_spots :
        /\ free_spots[i][1] <= free_spots[i][2]
        /\ \E k \in 1 .. 3 : /\ rand_windows[k][1] <= free_spots[i][1]
                             /\ free_spots[i][2] <= rand_windows[k][2]

C2_FreeSpotsSortedDisjoint ==
    (Planning /\ Ascending(app.window))
        => (FreeSpotsSorted /\ FreeSpotsDisjoint /\ FreeSpotsInsideWindows)

(***************************************************************************)
(* C3.  Every switch-on interval written into daily_use has length >=      *)
(* func_cycle, except possibly the last one: a truncated interval has      *)
(* length rand_time minus the on-time before it, it is the last event and  *)
(* the call has left the loop.                                             *)
(***************************************************************************)
C3_EventLengths ==
    \A i \in DOMAIN events :
        IF events[i].truncated
        THEN /\ i = Len(events)
             /\ pc = "return"
             /\ events[i].size = rand_time - SizeOfFirst(i - 1)
        ELSE events[i].size >= app.func_cycle

C3_Witness ==
    /\ Len(events) >= 2
    /\ events[Len(events)].truncated
    /\ events[Len(events)].size < app.func_cycle

(***************************************************************************)
(* C4.  The total number of on-minutes applied by the main loop is at most *)
(* rand_time + (func_cycle - 1).                                           *)
(***************************************************************************)
C4_OnMinutesWithinBudget == OnMinutes <= rand_time + (app.func_cycle - 1)

C4_Witness ==
    /\ pc = "return"
    /\ Len(events) >= 2
    /\ events[Len(events)].truncated
    /\ OnMinutes = rand_time

(***************************************************************************)
(* C5.  When generate_load_profile returns, the number of minutes with     *)
(* non-zero daily_use is at most total_avail, the summed size of the day's *)
(* jittered windows, and every non-zero minute lies in a jittered window.  *)
(***************************************************************************)
C5_NonZeroInsideWindows ==
    Returned => /\ Cardinality(NonZeroMinutes) <= TotalTime(rand_windows)
                /\ NonZeroMinutes \subseteq JitteredMinutes

C5_Witness ==
    /\ pc = "return"
    /\ Len(events) >= 1
    /\ app.random_var_w > 0
    /\ rand_windows # app.window
    /\ ChosenMinutes \subseteq NonZeroMinutes

(***************************************************************************)
(* C6.  For an eligible flat appliance the call leaves daily_use equal to  *)
(* power * number on every minute of every jittered window and zero        *)
(* elsewhere; no switch-on event is applied.                               *)
(***************************************************************************)
C6_FlatProfile ==
    pc = "return_flat" =>
        /\ \A m \in Minutes :
            daily_use[m] = IF m \in JitteredMinutes
                           THEN app.power * app.number * 1000 ELSE 0
        /\ events = <<>>

C6_Witness ==
    /\ pc = "return_flat"
    /\ app.number = 2
    /\ app.power = 2
    /\ daily_use[0] = 0
    /\ daily_use[1] = 4000

(***************************************************************************)
(* C7.  If fixed = 'yes' the coincidence of every switch-on event is the   *)
(* number of copies, inside and outside the peak range, and the samples of *)
(* the latest event are number times the base power (after its thermal     *)
(* variation) or number times the waveform sample.                         *)
(***************************************************************************)
LatestEventSamplesTimesNumber ==
    LET e == events[Len(events)]
        last == e.start + e.size - 1
        cyc == random_cycle[CycleFor(e.start, last)]
    IN  \A m \in EventMinutes(e) :
            IF app.fixed_cycle > 0
            THEN Len(cyc) > 0 =>
                    daily_use[m] = app.number * cyc[((m - e.start) % Len(cyc)) + 1]
            ELSE \E f \in VariationFactors(app.thermal_p_var) :
                    daily_use[m] = app.number * ((app.power * 1000 * f) \div 100)

C7_FixedCoincidenceIsNumber ==
    app.fixed = "yes" =>
        /\ \A i \in DOMAIN events : events[i].coincidence = app.number
        /\ events # <<>> => LatestEventSamplesTimesNumber

C7_Witness ==
    /\ app.fixed = "yes"
    /\ app.number >= 2
    /\ Len(events) >= 2
    /\ \E i \in DOMAIN events :
        InsidePeakWindow(events[i].start, events[i].start + events[i].size - 1)
    /\ \E i \in DOMAIN events :
        ~InsidePeakWindow(events[i].start, events[i].start + events[i].size - 1)

(***************************************************************************)
(* C8.  Whenever an eligibility condition fails, the call returns with     *)
(* daily_use zero at every minute, whatever daily_use held before.         *)
(***************************************************************************)
C8_SkipLeavesZeros == pc = "return_skip" => daily_use = Zeros

C8_Witness ==
    /\ pc = "return_skip"
    /\ app.wd_we_type = 0
    /\ day_type = 1
    /\ draws.u <= app.occasional_use
    /\ app.pref_index = 0
    /\ WindowsDailyUse(app.window[1], app.window[2], app.window[3]) # Zeros

(***************************************************************************)
(* C9.  With occasional_use = 0, daily_use is all zeros when the call      *)
(* returns, for every value of the uniform(0, 1) draw.                     *)
(***************************************************************************)
C9_NeverUsedIsAllZeros ==
    (app.occasional_use = 0 /\ Returned) => daily_use = Zeros

(***************************************************************************)
(* C10.  As claimed: for a user with user_preference = 0 no appliance is   *)
(* skipped by the preference test, whatever its pref_index (a skip is then *)
(* due to the occasional-use test or the week test).                       *)
(***************************************************************************)
C10_NoPreferenceNeverSkips ==
    (user_preference = 0 /\ pc = "return_skip") =>
        (draws.u > app.occasional_use \/ app.wd_we_type \notin {day_type, 2})

(***************************************************************************)
(* C10, amended.  The preference test applies whenever pref_index != 0:    *)
(* the draw is 0 for user_preference = 0 and randint(1, user_preference)   *)
(* otherwise, and an appliance that passes the other two tests is skipped  *)
(* exactly when pref_index != 0 and the draw differs from pref_index; so   *)
(* with user_preference = 0 an appliance with pref_index != 0 is always    *)
(* skipped and one with pref_index = 0 never is.                           *)
(***************************************************************************)
C10_PreferenceTest ==
    pc # "start" =>
        /\ draws.rand_daily_pref \in
              (IF user_preference = 0 THEN {0} ELSE 1 .. user_preference)
        /\ (draws.u <= app.occasional_use /\ app.wd_we_type \in {day_type, 2}) =>
              (pc = "return_skip" <=>
                  (app.pref_index # 0 /\ draws.rand_daily_pref # app.pref_index))
        /\ (user_preference = 0 /\ app.pref_index # 0) => pc = "return_skip"

C10_Witness ==
    /\ pc = "return_skip"
    /\ user_preference = 0
    /\ app.pref_index # 0
    /\ draws.u <= app.occasional_use
    /\ app.wd_we_type \in {day_type, 2}

WasConstructed == bpc \in {"constructed", "returned"} \/ (bpc = "error" /\ built # <<>>)

\* windows() was called and returned
WindowsReturned == bpc = "returned" /\ HasWindowsArgs(args)

\* windows() was called and ended, one way or the other
WindowsEnded == bpc \in {"returned", "error"} /\ built # <<>> /\ HasWindowsArgs(args)

\* the sum of the spans of all three windows
SpanSum(ws) == WinSize(ws[1]) + WinSize(ws[2]) + WinSize(ws[3])

\* the windows the call of windows() supplies
Supplied == {i \in 1 .. 3 : <<args.window_1, args.window_2, args.window_3>>[i] # None}

(***************************************************************************)
(* C16.  After construction of an accepted Appliance its power series has  *)
(* exactly the length of the year-long series a scalar is expanded to      *)
(* (366), whatever the form of the power argument.                         *)
(***************************************************************************)
C16_PowerLength == WasConstructed => Len(built.power) = ScalarPowerLen

(***************************************************************************)
(* C18.  windows() raises InvalidWindow whenever the windows it counts sum *)
(* to less than func_time, an appliance for which windows() raised is not  *)
(* in App_list, and every appliance in App_list has window spans that sum  *)
(* to at least func_time.                                                  *)
(***************************************************************************)
C18_WindowTimeChecked ==
    /\ (/\ WindowsEnded
         /\ ~MissingWindow(args.num_windows, args.window_2, args.window_3)
         /\ WindowTime(built.window, built.num_windows) < built.func_time)
        => (bpc = "error" /\ berror = "InvalidWindow")
    /\ bpc = "error" => App_list = <<>>
    /\ \A i \in DOMAIN App_list :
          /\ WindowTime(App_list[i].window, App_list[i].num_windows) >= App_list[i].func_time
          /\ SpanSum(App_list[i].window) >= App_list[i].func_time

\* the spans sum to less than func_time: rejected, not added
C18_Witness ==
    /\ WindowsEnded
    /\ ~MissingWindow(args.num_windows, args.window_2, args.window_3)
    /\ SpanSum(built.window) > 0
    /\ SpanSum(built.window) < built.func_time
    /\ berror = "InvalidWindow"
    /\ App_list = <<>>

(***************************************************************************)
(* C19.  After a successful windows() call on an appliance with            *)
(* num_windows = k, windows 1..k are populated and windows k+1..3 are      *)
(* [0,0); supplying a window beyond num_windows is rejected.               *)
(***************************************************************************)
C19_WindowsMatchNumWindows ==
    WindowsReturned =>
        /\ \A i \in 1 .. 3 : i <= built.num_windows => built.window[i] # NoWindow
        /\ \A i \in 1 .. 3 : i > built.num_windows => built.window[i] = NoWindow
        /\ \A i \in Supplied : i <= built.num_windows

(***************************************************************************)
(* Vocabulary of the properties of the generators.                         *)
(***************************************************************************)
PointwiseSum(a, b) == [m \in Minutes |-> a[m] + b[m]]

RECURSIVE SumOfGenerated(_)
\* the per-minute sum of the daily_use of a set of calls
SumOfGenerated(S) ==
    IF S = {} THEN Zeros
    ELSE LET e == CHOOSE x \in S : TRUE
         IN  PointwiseSum(e.daily_use, SumOfGenerated(S \ {e}))

RECURSIVE SumOfProfiles(_)
\* the per-minute sum of a sequence of profiles
SumOfProfiles(ps) ==
    IF ps = <<>> THEN Zeros ELSE PointwiseSum(Head(ps), SumOfProfiles(Tail(ps)))

\* the calls made for day d, and those of them made for user category u
GeneratedOn(d) == {e \in generated : e.day = d}

GeneratedFor(d, u) == {e \in generated : e.day = d /\ e.user = u}

\* (day, user category, appliance, member) of a call
KeyOf(e) == <<e.day, e.user, e.app, e.copy>>

\* one generation per day, appliance and member
ExpectedGenerations ==
    UNION { { <<d, u, a, c>> : a \in 1 .. Len(users[u].App_list),
                                c \in 1 .. users[u].num_users } :
            d \in 0 .. (num_profiles - 1), u \in 1 .. Len(users) }

\* what the generator returns: profiles, or daily_profiles with its rows
\* numbered from 1
Output ==
    IF parallel
    THEN [d \in 1 .. num_profiles |-> daily_profiles[d - 1]]
    ELSE profiles

Ended == upc \in {"done", "error"}

(***************************************************************************)
(* C11.  In sequential mode every returned profile is the per-minute sum   *)
(* of the daily_use of all calls made for its day, the use-case load of a  *)
(* day is the sum of the user loads, and a user load is the sum of the     *)
(* daily_use of the calls made for its num_users members and its           *)
(* appliances, one call per member and appliance.                          *)
(***************************************************************************)
C11_SequentialSums ==
    ~parallel =>
        /\ \A d \in DOMAIN profiles : profiles[d] = SumOfGenerated(GeneratedOn(d - 1))
        /\ (upc = "seq_user" /\ user_i > Len(users)) =>
               usecase_load = SumOfProfiles(load)
        /\ (upc = "seq_member" /\ member_i >= users[user_i].num_users) =>
               /\ load[user_i] = SumOfGenerated(GeneratedFor(prof_i, user_i))
               /\ Cardinality(GeneratedFor(prof_i, user_i)) =
                      users[user_i].num_users * Len(users[user_i].App_list)
        /\ upc = "done" => Len(profiles) = num_profiles

\* two days of two user categories were generated; in some minute of the
\* first day five appliances were on, those of the second member of a
\* category among them
C11_Witness ==
    /\ ~parallel
    /\ upc = "done"
    /\ Len(users) = 2
    /\ Len(profiles) = 2
    /\ \E e \in generated : e.copy = 2 /\ e.kind = "flat"
    /\ \E e \in generated : e.kind = "skip_occasional"
    /\ \E m \in Minutes : profiles[1][m] >= 5 * 1000

(***************************************************************************)
(* C12.  Parallel mode makes exactly the generations of sequential mode,   *)
(* one per day, appliance and member; every task result is appended once,  *)
(* to the entry of its day_id; row d of the output is the per-minute sum   *)
(* of the results of day d, in whatever order the results arrived.         *)
(***************************************************************************)
C12_ParallelSums ==
    upc = "done" =>
        /\ {KeyOf(e) : e \in generated} = ExpectedGenerations
        /\ Cardinality(generated) = Cardinality(ExpectedGenerations)
        /\ parallel =>
              /\ Len(tasks) = Cardinality(ExpectedGenerations)
              /\ \A t \in DOMAIN tasks :
                    /\ KeyOf([day |-> tasks[t].day_id, user |-> tasks[t].user,
                              app |-> tasks[t].app_i, copy |-> tasks[t].copy])
                          \in ExpectedGenerations
                    /\ \A d \in DOMAIN daily_profiles_dict :
                          Cardinality({i \in DOMAIN daily_profiles_dict[d] :
                                         daily_profiles_dict[d][i].task = t})
                            = IF d = tasks[t].day_id THEN 1 ELSE 0
              /\ \A d \in DOMAIN daily_profiles :
                    daily_profiles[d] = SumOfGenerated(GeneratedOn(d))

\* the results of a day arrived out of the order of their tasks
C12_Witness ==
    /\ parallel
    /\ upc = "done"
    /\ \E d \in DOMAIN daily_profiles_dict :
          /\ \E i, j \in DOMAIN daily_profiles_dict[d] :
                i < j /\ daily_profiles_dict[d][i].task > daily_profiles_dict[d][j].task
          /\ \E m \in Minutes : daily_profiles[d][m] > 0

(***************************************************************************)
(* C13.  With day_types a sequence of one day type per profile, the        *)
(* weekday/weekend test of every call made for day d is made against       *)
(* day_types[d]: the call is skipped by that test only if the appliance    *)
(* is not used on days of that type, it is eligible only if the appliance  *)
(* is used on them, and the test raises no error.                          *)
(***************************************************************************)
C13_DayTypeOfTheDay ==
    day_types.form # "int" =>
        \A e \in generated :
            LET a == users[e.user].App_list[e.app]
                dt == day_types.v[e.day + 1]
            IN  /\ e.day_type = DayTypeOfDay(day_types, e.day)
                /\ e.kind = "skip_week" => WeekSkip(a.wd_we_type, dt)
                /\ e.kind = "flat" => ~WeekSkip(a.wd_we_type, dt)
                /\ e.kind # "ValueError"

(***************************************************************************)
(* C15.  For a use case without users or whose users own no appliance,     *)
(* and num_profiles days of the year with their day types, both generators *)
(* return num_profiles profiles, each an all-zero day.                     *)
(***************************************************************************)
C15_EmptyUseCaseOutput ==
    (/\ Ended
     /\ ExpectedGenerations = {}
     /\ day_types.form # "int"
     /\ num_profiles <= YearLen)
    => /\ upc = "done"
       /\ DOMAIN Output = 1 .. num_profiles
       /\ \A d \in DOMAIN Output : Output[d] = Zeros

(***************************************************************************)
(* C17.  No appliance profile is generated for a day index outside         *)
(* [0, 365): the request is rejected before the first call for that day,   *)
(* in sequential mode and in parallel mode.                                *)
(***************************************************************************)
C17_OutOfRangeDayRejected == \A e \in generated : ~DayOutOfRange(e.day)

(***************************************************************************)
(* C20.  In parallel mode every task draws from a stream of its own: no    *)
(* two tasks draw from the same stream, start from the same state of the   *)
(* random module or consume the same part of a stream.                     *)
(***************************************************************************)
C20_IndependentStreams ==
    parallel =>
        \A e1, e2 \in generated :
            KeyOf(e1) # KeyOf(e2) =>
                /\ e1.rng_from.seed # e2.rng_from.seed
                /\ e1.rng_from # e2.rng_from
                /\ ~(/\ e1.rng_from.seed = e2.rng_from.seed
                      /\ e1.rng_from.pos < e2.rng_to.pos
                      /\ e2.rng_from.pos < e1.rng_to.pos)

(***************************************************************************)
(* C21: removing a chosen interval from its free spot never leaves an      *)
(* interval of length zero in free_spots, also when the interval reaches   *)
(* the end of the spot or covers the whole spot.                           *)
(***************************************************************************)
EmptySpots(fs) == {i \in DOMAIN fs : fs[i][1] = fs[i][2]}

C21_NoEmptyFreeSpot == Planning => EmptySpots(free_spots) = {}

(***************************************************************************)
(* Single calls (SpecCalls): a method is called once on given arguments    *)
(* and returns.                                                            *)
(***************************************************************************)
\* calc_coincident_switch_on on an appliance of `number` copies; op_factor in
\* halves, below, at and above number
CoincidenceCalls ==
    [method : {"calc_coincident_switch_on"}, number : 1 .. MaxNumber,
     fixed : {"no", "yes"}, op_factor : 0 .. (2 * MaxNumber + 2),
     inside_peak_window : BOOLEAN]

CallCoincidentSwitchOn ==
    /\ call.method = "calc_coincident_switch_on"
    /\ ret = <<>>
    /\ \E c \in CoincidentSwitchOn(call.number, call.fixed, call.op_factor,
                                   call.inside_peak_window) :
        ret' = <<c>>
    /\ UNCHANGED <<call, appliance_vars, build_vars, usecase_vars>>

\* calc_rand_window on a configured window: its random_var_i is the one
\* windows() derives from random_var_w (in percent)
RandWindowCalls ==
    [method : {"calc_rand_window"}, window : ProperWindows \cup {NoWindow},
     random_var_w : {0, 25, 50, 75, 100}]

CallCalcRandWindow ==
    /\ call.method = "calc_rand_window"
    /\ ret = <<>>
    /\ \E rw \in CalcRandWindow(call.window, RandomVarOf(call.random_var_w, call.window)) :
        ret' = <<rw>>
    /\ UNCHANGED <<call, appliance_vars, build_vars, usecase_vars>>

(***************************************************************************)
(* Equality of appliances and of users (Appliance.__eq__, User.__eq__).    *)
(***************************************************************************)
\* ramp.core.constants.APPLIANCE_ATTRIBUTES, two of its names
ApplianceAttributes == <<"number", "func_time">>

\* an attribute that was never assigned: hasattr is False
Unassigned == -1

HasAttr(object, attribute) == object[attribute] # Unassigned

\* the appliances compared: attribute values, or Unassigned
ComparedAppliances == [number : {1, 2}, func_time : {Unassigned, 1, 2}]

\* the statement `np.append(answer, values)`: np.append returns a new array and
\* does not change its argument, the value is dropped, answer is what it was
AppendedDropped(answer, values) == answer

\* arr.all() of a boolean array, a numpy.bool_ (True for the empty array)
NpAll(arr) == [type |-> "numpy.bool_", value |-> \A i \in DOMAIN arr : arr[i]]

PyBool(b) == [type |-> "bool", value |-> b]

\* `x is True`: identity with the singleton True, which no numpy.bool_ is
IsTrue(x) == x.type = "bool" /\ x.value

\* what the loop over APPLIANCE_ATTRIBUTES appends for one attribute
AttributeTest(self, other, attribute) ==
    IF HasAttr(self, attribute) /\ HasAttr(other, attribute)
    THEN <<self[attribute] = other[attribute]>>
    ELSE IF ~HasAttr(self, attribute) /\ ~HasAttr(other, attribute) THEN <<TRUE>>
    ELSE <<FALSE>>

RECURSIVE ApplianceAnswer(_, _, _)
\* answer after the first n attributes of the loop
ApplianceAnswer(self, other, n) ==
    IF n = 0 THEN <<>>
    ELSE AppendedDropped(ApplianceAnswer(self, other, n - 1),
                         AttributeTest(self, other, ApplianceAttributes[n]))

\* Appliance.__eq__
ApplianceEq(self, other) ==
    NpAll(ApplianceAnswer(self, other, Len(ApplianceAttributes)))

UserAttributes == <<"user_name", "num_users", "user_preference">>

RECURSIVE UserAnswer(_, _, _)
\* answer after the first n user attributes
UserAnswer(self, other, n) ==
    IF n = 0 THEN <<>>
    ELSE AppendedDropped(UserAnswer(self, other, n - 1),
                         <<self[UserAttributes[n]] = other[UserAttributes[n]]>>)

\* the comparison of the appliance lists, taken when `answer is True`
AppListsEq(self, other) ==
    IF Len(self.App_list) = Len(other.App_list)
    THEN LET answer == [i \in DOMAIN self.App_list |->
                           ApplianceEq(self.App_list[i], other.App_list[i]).value]
         IN  IF Len(answer) > 0 THEN NpAll(answer)
             ELSE PyBool(Len(self.App_list) = 0)
    ELSE PyBool(FALSE)

\* User.__eq__
UserEq(self, other) ==
    LET answer == NpAll(UserAnswer(self, other, Len(UserAttributes)))
    IN  IF IsTrue(answer) THEN AppListsEq(self, other) ELSE answer

\* the users compared
ComparedUsers ==
    [user_name : {"households", "school"}, num_users : {1, 2}, user_preference : {0},
     App_list : {<<>>} \cup {<<a>> : a \in [number : {1, 2}, func_time : {1}]}]

ApplianceEqCalls ==
    [method : {"Appliance.__eq__"}, self : ComparedAppliances, other : ComparedAppliances]

UserEqCalls == [method : {"User.__eq__"}, self : ComparedUsers, other : ComparedUsers]

CallApplianceEq ==
    /\ call.method = "Appliance.__eq__"
    /\ ret = <<>>
    /\ ret' = <<ApplianceEq(call.self, call.other)>>
    /\ UNCHANGED <<call, appliance_vars, build_vars, usecase_vars>>

CallUserEq ==
    /\ call.method = "User.__eq__"
    /\ ret = <<>>
    /\ ret' = <<UserEq(call.self, call.other)>>
    /\ UNCHANGED <<call, appliance_vars, build_vars, usecase_vars>>

NextCalls ==
    \/ CallCoincidentSwitchOn
    \/ CallCalcRandWindow
    \/ CallApplianceEq
    \/ CallUserEq

InitCalls ==
    /\ \/ call \in CoincidenceCalls
       \/ call \in RandWindowCalls
       \/ call \in ApplianceEqCalls
       \/ call \in UserEqCalls
    /\ ret = <<>>
    /\ ApplianceIdle
    /\ BuildIdle
    /\ UseCaseIdle

SpecCalls == InitCalls /\ [][NextCalls]_vars

(***************************************************************************)
(* C22: calc_coincident_switch_on returns an integer of 1..number for      *)
(* every number >= 1, every draw and every op_factor, also when op_factor  *)
(* exceeds number and the off-peak probability is negative; for number = 1 *)
(* it returns 1 inside and outside the peak window.                        *)
(***************************************************************************)
CoincidenceReturned == call.method = "calc_coincident_switch_on" /\ ret # <<>>

C22_CoincidenceInRange ==
    CoincidenceReturned =>
        /\ ret[1] \in 1 .. call.number
        /\ call.number = 1 => ret[1] = 1

\* an off-peak call with op_factor above number (negative probability) returned
C22_Witness ==
    /\ CoincidenceReturned
    /\ call.fixed = "no"
    /\ ~call.inside_peak_window
    /\ call.op_factor > 2 * call.number
    /\ call.number > 1
    /\ ret[1] = 1

(***************************************************************************)
(* C23: a value r returned by rand_total_time_of_use satisfies             *)
(* func_cycle <= r <= 0.99 * total_avail, total_avail being the summed     *)
(* size of the three jittered windows; the call raises exactly when the    *)
(* value capped to floor(0.99 * total_avail) is below func_cycle.          *)
(***************************************************************************)
\* rand_total_time_of_use was called on rand_windows
RandTimeCalled == pc \notin {"start", "windows", "return_skip"}

\* it raised: the call of generate_load_profile ended before rand_time was bound
RandTimeRaised == pc = "error" /\ error = "ValueError" /\ rand_time = 0

\* floor(0.99 * total_avail)
CappedTime == (99 * TotalTime(rand_windows)) \div 100

C23_RandTimeBounds ==
    RandTimeCalled =>
        /\ ~RandTimeRaised =>
            /\ app.func_cycle <= rand_time
            /\ 100 * rand_time <= 99 * TotalTime(rand_windows)
        /\ RandTimeRaised <=> CappedTime < app.func_cycle

\* the cap applied: the draw was above 0.99 * total_avail and the capped value
\* was returned
C23_Witness ==
    /\ pc = "loop"
    /\ rand_time = CappedTime
    /\ rand_time < app.func_time
    /\ app.func_cycle <= rand_time
    /\ TotalTime(rand_windows) < TotalTime(app.window)

(***************************************************************************)
(* C24: with rand_time >= func_cycle >= 1 the planner never takes its      *)
(* internal-error branch (largest_duration < func_cycle).  On every        *)
(* reachable free_spots list rand_switch_on_window returns None exactly    *)
(* when no free spot is func_cycle long, and otherwise an interval         *)
(* [switch_on, switch_on + L) inside one free spot with                    *)
(* func_cycle <= L <= min(rand_time, spot end - switch_on).                *)
(***************************************************************************)
\* the free spots that can hold a switch-on of func_cycle minutes
FittingSpots == {i \in DOMAIN free_spots : WinSize(free_spots[i]) >= app.func_cycle}

\* the interval of outcome o lies inside the free spot i, its length within bounds
PlannedInside(o, i) ==
    /\ free_spots[i][1] <= o.start
    /\ o.start + o.size <= free_spots[i][2]
    /\ app.func_cycle <= o.size
    /\ o.size <= Min(rand_time, free_spots[i][2] - o.start)

C24_PlannerTotal ==
    InLoop =>
        /\ rand_time >= app.func_cycle
        /\ \A o \in Planned :
            /\ o.kind # "raise"
            /\ o.kind = "none" <=> FittingSpots = {}
            /\ o.kind = "indexes" => \E i \in DOMAIN free_spots : PlannedInside(o, i)

\* the planner returned None after an event, with a free spot left that is too
\* short for func_cycle
C24_Witness ==
    /\ pc = "return"
    /\ tot_time <= rand_time
    /\ events # <<>>
    /\ FittingSpots = {}
    /\ \E i \in DOMAIN free_spots : WinSize(free_spots[i]) > 0

(***************************************************************************)
(* C25: for every configured window and every random_var_w of [0, 1] the   *)
(* jittered window calc_rand_window returns is a window,                   *)
(* 0 <= start <= end <= 1440, and the degenerate window [0, 0) stays       *)
(* [0, 0).                                                                 *)
(***************************************************************************)
RandWindowReturned == call.method = "calc_rand_window" /\ ret # <<>>

C25_JitteredIsWindow ==
    RandWindowReturned =>
        /\ 0 <= ret[1][1]
        /\ ret[1][1] <= ret[1][2]
        /\ ret[1][2] <= DayLen
        /\ call.window = NoWindow => ret[1] = NoWindow

(***************************************************************************)
(* C26: with fixed_cycle >= 1 the waveform of a switch-on over the minutes *)
(* I is selected by the midpoint m = round(mean(I)) alone: cycle 1 when m  *)
(* lies in cw11 or cw12, else cycle 2 when m lies in cw21 or cw22, else    *)
(* cycle 3 whatever cw31 and cw32 are.  With fixed_cycle == 1 the three    *)
(* slots hold the waveform of cycle 1, so every switch-on carries it.      *)
(***************************************************************************)
\* round half to even of the mean of first..last
MeanRounded(first, last) ==
    IF (first + last) % 2 = 0 THEN (first + last) \div 2
    ELSE IF ((first + last - 1) \div 2) % 2 = 0 THEN (first + last - 1) \div 2
    ELSE (first + last + 1) \div 2

Within(m, w) == m \in w[1] .. (w[2] - 1)

\* the slot the rule of the claim selects for the event e
SlotOf(e) ==
    LET m == MeanRounded(e.start, e.start + e.size - 1)
    IN  IF Within(m, app.cw[1]) \/ Within(m, app.cw[2]) THEN 1
        ELSE IF Within(m, app.cw[3]) \/ Within(m, app.cw[4]) THEN 2
        ELSE 3

\* the minutes of e carry the waveform w, repeated, times the coincidence
Carries(use, e, w) ==
    Len(w) > 0 =>
        \A m \in EventMinutes(e) :
            use[m] = w[((m - e.start) % Len(w)) + 1] * e.coincidence

\* the event the step has just applied
Applied == events'[Len(events')]

C26_Dispatch ==
    (Len(events') = Len(events) + 1 /\ app.fixed_cycle >= 1) =>
        /\ Carries(daily_use', Applied, random_cycle[SlotOf(Applied)])
        /\ app.fixed_cycle = 1 =>
            /\ random_cycle[2] = random_cycle[1]
            /\ random_cycle[3] = random_cycle[1]
            /\ Carries(daily_use', Applied, random_cycle[1])

C26_MidpointDispatch == [][C26_Dispatch]_vars

\* a switch-on whose midpoint lies in none of the six cycle windows was applied
\* and carries the waveform of slot 3, which differs from slots 1 and 2
C26_Witness ==
    /\ pc \in {"loop", "return"}
    /\ app.fixed_cycle >= 1
    /\ Len(events) = 1
    /\ \A k \in 1 .. 6 : ~Within(MeanRounded(events[1].start,
                                 events[1].start + events[1].size - 1), app.cw[k])
    /\ random_cycle[3] \notin {random_cycle[1], random_cycle[2]}
    /\ Len(random_cycle[3]) > 0
    /\ Carries(daily_use, events[1], random_cycle[3])

(***************************************************************************)
(* C27: == on two appliances is True only if they have the same attributes *)
(* with the same values, and == on two users is True only if user_name,    *)
(* num_users, user_preference and the appliances agree; objects that       *)
(* differ compare unequal.                                                 *)
(***************************************************************************)
EqReturned == call.method \in {"Appliance.__eq__", "User.__eq__"} /\ ret # <<>>

C27_EqualOnlyIfSame == EqReturned => (ret[1].value => call.self = call.other)

(***************************************************************************)
(* C28: within one appliance-day no minute is covered by two switch-on     *)
(* events: the intervals the main loop applies are pairwise disjoint, for  *)
(* every configuration whose windows do not overlap (adjacent windows and  *)
(* jittered windows that touch or overlap included).                       *)
(***************************************************************************)
\* the configured windows share no minute
WindowsDisjoint ==
    \A i, j \in 1 .. 3 :
        i # j => MinutesOf(app.window[i]) \cap MinutesOf(app.window[j]) = {}

EventsDisjoint ==
    \A i, j \in DOMAIN events :
        i # j => EventMinutes(events[i]) \cap EventMinutes(events[j]) = {}

C28_EventsDisjoint == (Planning /\ WindowsDisjoint) => EventsDisjoint

(***************************************************************************)
(* C29: for func_cycle >= 1 and every sequence of draws the main loop of   *)
(* generate_load_profile terminates: a pass either breaks or raises        *)
(* tot_time by at least func_cycle, so the loop makes at most              *)
(* rand_time + 1 passes.                                                   *)
(***************************************************************************)
\* the call has ended: it returned or raised
Ended29 == pc \in {"return", "return_flat", "return_skip", "error"}

\* a pass of the loop that does not leave it
PassKeepsLooping == pc = "loop" /\ pc' = "loop"

\* such a pass applies one event and raises tot_time by func_cycle or more
PassAdvances ==
    PassKeepsLooping =>
        /\ tot_time' >= tot_time + app.func_cycle
        /\ Len(events') = Len(events) + 1

\* the passes made so far, one per event, are at most rand_time: with the pass
\* that leaves the loop, rand_time + 1
PassesBounded ==
    pc = "loop" =>
        /\ app.func_cycle >= 1
        /\ Len(events) * app.func_cycle <= tot_time
        /\ tot_time <= rand_time
        /\ Len(events) + 1 <= rand_time + 1

C29_LoopTerminates == [][PassAdvances]_vars /\ []PassesBounded /\ <>Ended29

\* the loop made rand_time passes that applied an event and one more that broke
C29_Witness ==
    /\ pc = "return"
    /\ rand_time >= 2
    /\ Len(events) = rand_time
    /\ tot_time >= rand_time
    /\ \A i \in DOMAIN events : ~events[i].truncated

(***************************************************************************)
(* Theoretical maximum profile (Appliance.maximum_profile) and the peak    *)
(* window calc_peak_time_range derives from it.                            *)
(***************************************************************************)
\* self.daily_use * np.mean(self.power) * self.number
MaximumProfile(use) == [m \in Minutes |-> use[m] * app.power * app.number]

\* np.argwhere(tot_max_profile == np.amax(tot_max_profile))
PeakWindow(profile) == {m \in Minutes : \A k \in Minutes : profile[k] <= profile[m]}

(***************************************************************************)
(* C30: the maximum profile of an appliance, and so the peak window taken  *)
(* from it, depends on the configured windows, the power and the number    *)
(* only: it is the same after a call of generate_load_profile as before.   *)
(***************************************************************************)
\* the maximum profile right after windows(), before any call
ConfiguredMaximum ==
    MaximumProfile(WindowsDailyUse(app.window[1], app.window[2], app.window[3]))

C30_MaximumProfileStable ==
    Returned =>
        /\ MaximumProfile(daily_use) = ConfiguredMaximum
        /\ PeakWindow(MaximumProfile(daily_use)) = PeakWindow(ConfiguredMaximum)

====
